---- MODULE Spec2Model ----
(***************************************************************************)
(* Model of the retrieval store of Wonder-AI:                              *)
(* backend/app/services/vector_service.py (VectorStoreService) together    *)
(* with the embedding call it awaits (openai_service.generate_embeddings). *)
(*                                                                         *)
(* The store is a process-wide object shared by asyncio tasks.  A task     *)
(* runs without interruption between two awaits that really suspend; the   *)
(* only such awaits inside the store are the three embedding requests      *)
(* (add_documents, search_similar, _rebuild_index).  Each action below is   *)
(* one such uninterrupted run of a handler.                                *)
(***************************************************************************)
EXTENDS Integers, Sequences, FiniteSets, TLC

\* ------------------------------------------------------------------ bounds
NumTasks == 2          \* concurrent callers of the shared store
MaxDocs == 2           \* document ids ever generated (uuid4 values are fresh)
MaxBatch == 2          \* documents passed to one add_documents call
Dim == 4               \* scaled-down embedding dimension (1536 in the source)
MaxK == 3              \* largest k passed to search_similar directly
MaxChunksArg == 2      \* largest max_chunks passed to get_rag_context
MaxTextLen == 4        \* longest text passed to _chunk_text on its own
MaxChunkSize == 3      \* largest chunk_size passed to _chunk_text on its own
MaxOverlap == 3        \* largest overlap passed to _chunk_text on its own
MaxLoopChunks == 4     \* chunks a _chunk_text loop may collect before the model stops following it
MaxEmbedTexts == 3     \* texts passed to one generate_embeddings call on its own
BatchSize == 2         \* scaled-down sub-batch size (100 in the source)
MaxStored == 1         \* chunks stored at once in the installations where no call suspends
MaxMockTexts == 2      \* texts passed to one generate_embeddings call on its own without a client

Tasks == 1..NumTasks

\* ------------------------------------------------------------------ values
\* Python None for an Optional[str]; user ids are strings.
NoneVal == "None"
\* user_id values documents are added with, and values searches filter by.
OwnerIds == {NoneVal, "alice"}
FilterIds == {NoneVal, "", "alice"}

\* Python truthiness of an Optional[str]: None and "" are falsy.
truthy(u) == u # NoneVal /\ u # ""

\* self.dimension
dimension == Dim

\* A vector whose length is not the configured dimension.
BadVec == [i \in 1..(dimension + 1) |-> 1]

\* The embedding provider is a function of the text: the vector it returns for
\* a chunk when it answers with the configured dimension.  The texts differ
\* in the first component.
embed(text) ==
    [i \in 1..dimension |->
        IF i > 1 THEN 0 ELSE IF text # <<>> /\ text[Len(text)] = "b" THEN 2 ELSE 1]

\* The answers of one embedding request for a batch of texts: it raises, or it
\* returns one vector per text, where the vector at position bad (if any) has a
\* wrong dimension.
embedding_answer(texts, bad) ==
    [i \in 1..Len(texts) |-> IF i = bad THEN BadVec ELSE embed(texts[i])]
EmbeddingOutcomes(texts) ==
    {[raise |-> TRUE, vecs |-> <<>>]}
        \cup {[raise |-> FALSE, vecs |-> embedding_answer(texts, bad)] : bad \in 0..Len(texts)}

\* Thresholds passed as similarity_threshold (floats in the source).
Thresholds == {0, 2}
\* Query texts.
Queries == {<<"a">>, <<"b">>}

Min(a, b) == IF a < b THEN a ELSE b

\* ---------------------------------------------------------------- chunker
\* Python slice bound normalisation for a sequence of length n.
py_bound(i, n) == IF i < 0 THEN (IF n + i > 0 THEN n + i ELSE 0) ELSE Min(i, n)

\* text[a:b] with 0-based Python bounds.
py_slice(text, a, b) ==
    LET lo == py_bound(a, Len(text))
        hi == py_bound(b, Len(text))
    IN IF lo >= hi THEN <<>> ELSE SubSeq(text, lo + 1, hi)

\* text.rfind(' ', a, b): highest 0-based index in text[a:b] holding a space, -1 if none.
rfind_space(text, a, b) ==
    LET lo == py_bound(a, Len(text))
        hi == py_bound(b, Len(text))
        hits == {i \in lo..(hi - 1) : text[i + 1] = " "}
    IN IF hits = {} THEN -1 ELSE CHOOSE i \in hits : \A j \in hits : j <= i

\* str.strip() over the alphabet of the model (the space is the only whitespace).
RECURSIVE lstrip(_)
lstrip(s) == IF s # <<>> /\ Head(s) = " " THEN lstrip(Tail(s)) ELSE s
RECURSIVE rstrip(_)
rstrip(s) == IF s # <<>> /\ s[Len(s)] = " " THEN rstrip(SubSeq(s, 1, Len(s) - 1)) ELSE s
\* The window taken as it is.
strip_none(s) == s
strip(s) == rstrip(lstrip(s))

\* Every window cut at start + chunk_size.
cut_point_hard(text, start, end) == end
\* The end of the window that begins at start (lines 251-258); end comes in as
\* start + chunk_size.
cut_point(text, start, end) ==
    LET last_space == rfind_space(text, start, end)
    IN IF end < Len(text) /\ last_space > start THEN last_space ELSE end

\* One iteration of the while loop of _chunk_text (lines 251-265), begun with
\* start < len(text): the start and the chunks it leaves.
chunk_iter(text, chunk_size, overlap, start, chunks) ==
    LET end == cut_point(text, start, start + chunk_size)
        chunk == strip(py_slice(text, start, end))
    IN [start |-> IF end < Len(text) THEN end - overlap ELSE end,
        end |-> end,
        chunks |-> IF chunk # <<>> THEN Append(chunks, chunk) ELSE chunks]

\* The while loop of _chunk_text, entered with the given start and chunks.
RECURSIVE chunk_loop(_, _, _, _, _)
chunk_loop(text, chunk_size, overlap, start, chunks) ==
    IF ~(start < Len(text)) THEN chunks
    ELSE
      LET it == chunk_iter(text, chunk_size, overlap, start, chunks)
      IN IF it.start >= Len(text) THEN it.chunks
         ELSE chunk_loop(text, chunk_size, overlap, it.start, it.chunks)

\* The short text returned stripped, and dropped when blank.
chunk_short_stripped(text) == IF strip(text) = <<>> THEN <<>> ELSE <<strip(text)>>
\* return [text] (line 245)
chunk_short(text) == <<text>>

\* _chunk_text(text, chunk_size, overlap)
chunk_text(text, chunk_size, overlap) ==
    IF Len(text) <= chunk_size THEN chunk_short(text)
    ELSE chunk_loop(text, chunk_size, overlap, 0, <<>>)

\* Documents handed to add_documents: content, chunk_size, overlap_size.
\*   ""     -> one chunk holding the empty text
\*   "a  b" -> two chunks, "a" and "b" (the window between them is blank)
\*   "  "   -> no chunk (every window is blank)
DocInputs ==
    { [content |-> <<>>, chunk_size |-> 2, overlap_size |-> 0],
      [title |-> "T", metadata |-> 1,
       content |-> <<"a", " ", " ", "b">>, chunk_size |-> 2, overlap_size |-> 0],
      [content |-> <<" ", " ">>, chunk_size |-> 1, overlap_size |-> 0] }

\* doc.get(key, default) on an input document.
doc_get(doc, key, default) == IF key \in DOMAIN doc THEN doc[key] ELSE default

\* A metadata dict is an object with a content: obj names the object, val is
\* what it holds (0 for the empty dict).  Two records with the same obj hold
\* references to one dict.
\* doc.get("metadata", {}): the dict the input document came with, named after
\* the document it is ingested as, or else a new empty dict, named own.
doc_metadata(doc, doc_id, own) ==
    IF "metadata" \in DOMAIN doc
    THEN [obj |-> <<"input", doc_id>>, val |-> doc.metadata]
    ELSE [obj |-> own, val |-> 0]

\* Lists of at most MaxBatch documents.
DocLists == UNION { [1..n -> DocInputs] : n \in 0..MaxBatch }

\* ------------------------------------------------------------ ordered maps
\* A Python dict is kept as the sequence of its entries in insertion order;
\* every entry is a record with an id field.
has_key(d, key) == \E i \in 1..Len(d) : d[i].id = key
dict_get(d, key) == d[CHOOSE i \in 1..Len(d) : d[i].id = key]
\* d[key] = entry: replaces in place when the key exists, appends otherwise.
dict_set(d, entry) ==
    IF has_key(d, entry.id)
    THEN [i \in 1..Len(d) |-> IF d[i].id = entry.id THEN entry ELSE d[i]]
    ELSE Append(d, entry)
RECURSIVE dict_del(_, _)
dict_del(d, key) ==
    IF d = <<>> THEN <<>>
    ELSE IF Head(d).id = key THEN dict_del(Tail(d), key)
    ELSE <<Head(d)>> \o dict_del(Tail(d), key)

\* ------------------------------------------------------- similarity index
\* The FAISS IndexFlatIP is kept as the sequence of its vectors; position p
\* (0-based) is the p-th vector added.
RECURSIVE inner_product(_, _)
inner_product(a, b) ==
    IF a = <<>> THEN 0 ELSE a[1] * b[1] + inner_product(Tail(a), Tail(b))

\* The score of a padding entry: below every score and every threshold.
NegInf == 0 - (4 * (dimension + 1)) - 1

\* index.add(vector) raises when the vector's length is not the index dimension.
index_add_raises(v) == Len(v) # dimension
\* The vector put in front of the others.
index_add_front(idx, v) == <<v>> \o idx
index_add(idx, v) == Append(idx, v)

\* index.search raises for a query of the wrong dimension or a non-positive k.
index_search_raises(qv, k) == Len(qv) # dimension \/ k <= 0

\* The best remaining position: highest score, earliest added among equals.
best_position(idx, qv, cand) ==
    CHOOSE p \in cand : \A q \in cand :
        \/ inner_product(idx[p], qv) > inner_product(idx[q], qv)
        \/ (inner_product(idx[p], qv) = inner_product(idx[q], qv) /\ p <= q)

RECURSIVE top_k(_, _, _, _)
top_k(idx, qv, cand, k) ==
    IF k <= 0 THEN <<>>
    ELSE IF cand = {} THEN <<[score |-> NegInf, idx |-> -1]>> \o top_k(idx, qv, {}, k - 1)
    ELSE LET p == best_position(idx, qv, cand)
         IN <<[score |-> inner_product(idx[p], qv), idx |-> p - 1]>>
                \o top_k(idx, qv, cand \ {p}, k - 1)

\* index.search(query_vector, k): exactly k (score, position) pairs, best first,
\* padded with position -1 when fewer than k vectors are stored.
index_search(idx, qv, k) == top_k(idx, qv, 1..Len(idx), k)

\* ------------------------------------------------------------ search_similar
\* results.sort(key=similarity_score, reverse=True): a stable sort.
RECURSIVE insert_desc(_, _)
insert_desc(sorted, x) ==
    IF sorted = <<>> THEN <<x>>
    ELSE IF Head(sorted).similarity_score >= x.similarity_score
         THEN <<Head(sorted)>> \o insert_desc(Tail(sorted), x)
         ELSE <<x>> \o sorted
\* The sort without reverse=True: ascending by score.
RECURSIVE insert_asc(_, _)
insert_asc(sorted, x) ==
    IF sorted = <<>> THEN <<x>>
    ELSE IF Head(sorted).similarity_score <= x.similarity_score
         THEN <<Head(sorted)>> \o insert_asc(Tail(sorted), x)
         ELSE <<x>> \o sorted
RECURSIVE sort_asc(_)
sort_asc(s) ==
    IF s = <<>> THEN <<>>
    ELSE insert_asc(sort_asc(SubSeq(s, 1, Len(s) - 1)), s[Len(s)])
RECURSIVE sort_desc(_)
sort_desc(s) ==
    IF s = <<>> THEN <<>>
    ELSE insert_desc(sort_desc(SubSeq(s, 1, Len(s) - 1)), s[Len(s)])

\* A hit is skipped when its score is below the threshold (line 149).
below_threshold_inverted(score, similarity_threshold) == score > similarity_threshold
below_threshold(score, similarity_threshold) == score < similarity_threshold

\* A hit is skipped when a filter is given and the document of its chunk has
\* another user_id (line 157); a falsy user_id is no filter.
owner_mismatch_unfiltered(docs, doc_id, user_id) == FALSE
owner_mismatch(docs, doc_id, user_id) ==
    truthy(user_id) /\ dict_get(docs, doc_id).user_id # user_id

\* The for loop over the hits (lines 148-173).  exc is TRUE when a lookup raises
\* (chunk_ids[idx] out of range, or the chunk's document is not recorded).
RECURSIVE collect_results(_, _, _, _, _, _, _)
collect_results(docs, cks, hits, i, similarity_threshold, user_id, acc) ==
    IF i > Len(hits) THEN [exc |-> FALSE, results |-> acc]
    ELSE
      LET score == hits[i].score
          idx == hits[i].idx
      IN IF idx >= Len(cks) \/ below_threshold(score, similarity_threshold)
         THEN collect_results(docs, cks, hits, i + 1, similarity_threshold, user_id, acc)
         ELSE
           LET pos == IF idx < 0 THEN Len(cks) + idx ELSE idx
           IN IF pos < 0 THEN [exc |-> TRUE, results |-> acc]
              ELSE
                LET chunk == cks[pos + 1]
                    doc_id == chunk.document_id
                IN IF ~has_key(docs, doc_id) THEN [exc |-> TRUE, results |-> acc]
                   ELSE IF owner_mismatch(docs, doc_id, user_id)
                   THEN collect_results(docs, cks, hits, i + 1,
                                        similarity_threshold, user_id, acc)
                   ELSE collect_results(docs, cks, hits, i + 1,
                            similarity_threshold, user_id,
                            Append(acc, [document_id |-> doc_id,
                                         chunk_id |-> chunk.id,
                                         content |-> chunk.content,
                                         similarity_score |-> score,
                                         title |-> dict_get(docs, doc_id).title,
                                         chunk_index |-> chunk.chunk_index]))

\* search_similar after the query embedding has arrived (lines 140-183): the
\* returned list.  Any exception inside the try block yields the empty list.
search_similar_body(docs, cks, idx, qv, k, similarity_threshold, user_id) ==
    IF index_search_raises(qv, k) THEN <<>>
    ELSE LET r == collect_results(docs, cks, index_search(idx, qv, k), 1,
                                  similarity_threshold, user_id, <<>>)
         IN IF r.exc THEN <<>> ELSE sort_desc(r.results)

\* get_rag_context: the k it passes to search_similar and the envelope it returns.
rag_k_no_overfetch(max_chunks) == max_chunks
rag_k(max_chunks) == max_chunks * 2
\* The envelope without the truncation to max_chunks.
rag_envelope_untruncated(query, results, max_chunks, similarity_threshold) ==
    [query |-> query,
     results |-> results,
     total_chunks |-> Len(results),
     max_chunks |-> max_chunks,
     similarity_threshold |-> similarity_threshold]
rag_envelope(query, results, max_chunks, similarity_threshold) ==
    LET limited == SubSeq(results, 1, Min(max_chunks, Len(results)))
    IN [query |-> query,
        results |-> limited,
        total_chunks |-> Len(limited),
        max_chunks |-> max_chunks,
        similarity_threshold |-> similarity_threshold]

\* -------------------------------------------------------------------- state
VARIABLES
    faiss,         \* the module globals faiss and np: TRUE when the import at lines
                   \* 10-16 succeeded, FALSE when both are None
    client,        \* openai_service.client is set: the package and the API key are
                   \* present (openai_service.py 38-50)
    initialized,   \* self._initialized
    documents,     \* self.documents, in insertion order
    chunks,        \* self.chunks, in insertion order
    index,         \* self.index: the vectors, in the order they were added
    next_id,       \* the next fresh document id (uuid4 never repeats)
    tasks,         \* per caller: where its call is suspended, and its locals
    returned,      \* the call the latest step completed, with its arguments and
                   \* its result; NoReturn when the latest step completed no call
    disk           \* the snapshot files under /tmp and the condition of the file system

vars == <<faiss, client, initialized, documents, chunks, index, next_id, tasks, returned, disk>>

IdleTask == [pc |-> "idle", op |-> "none"]
NoReturn == [op |-> "none"]

\* The store fields a handler reads and writes, as one value.
store == [documents |-> documents, chunks |-> chunks, index |-> index, next_id |-> next_id]

\* A caller may issue a call when it is not inside one.
can_call(t) == tasks[t].pc = "idle"
some_caller_idle == {t \in Tasks : can_call(t)} # {}

\* A mutating call that is suspended between two of its state changes.
mid_mutation(t) ==
    tasks[t].pc \in {"add_await", "add_sleep", "rebuild_await", "rebuild_sleep"}

\* ------------------------------------------------------- embedding requests
\* generate_embeddings(texts, batch_size=100): the texts of one request.
batch_size == BatchSize
\* The loop goes on after this sub-batch: range(0, len(texts), batch_size) has
\* a further element.
more_batches(i, n) == i + batch_size < n
\* The sleep after a sub-batch answer is made when the input has more than
\* batch_size texts (openai_service.py 194-195).
sleeps_between_batches(n) == n > batch_size
\* The length of the placeholder vectors (the literal 1536, like self.dimension).
mock_dimension == Dim
\* The lists of placeholder vectors the unconfigured service may return:
\* one vector of random components per text (openai_service.py 172-175);
\* a component (random.random() in the source) is 1 or 2 here, each drawn on
\* its own, so that the scores of stored chunks differ and a new query vector
\* may order them differently.
MockEmbeddings(texts) == [1..Len(texts) -> [1..mock_dimension -> {1, 2}]]
\* What generate_embeddings(texts) gives the store: with a client, what the
\* provider answers, after a suspension; without one, placeholder vectors,
\* at once and without raising.
ProviderOutcomes(texts) ==
    IF client THEN EmbeddingOutcomes(texts)
    ELSE {[raise |-> FALSE, vecs |-> vecs] : vecs \in MockEmbeddings(texts)}

\* ------------------------------------------------------------ disk snapshot
\* A snapshot file is the empty sequence when it does not exist, and the
\* one-element sequence of its content when it does.
NoFile == <<>>

\* _save_index without its try/except: an error of a write reaches the caller.
\* json.dump of the two maps: the file holds the content of every record, and
\* a dict that several records refer to is written once per record, so every
\* record read back has a dict of its own.
json_documents(docs) ==
    [i \in 1..Len(docs) |-> [docs[i] EXCEPT !.metadata.obj = <<"document", docs[i].id>>]]
json_chunks(cks) ==
    [i \in 1..Len(cks) |->
        [cks[i] EXCEPT !.metadata.obj = <<"chunk", cks[i].document_id, cks[i].chunk_index>>]]

save_index_unguarded(st, dk) ==
    IF dk.fault = "index"
    THEN [disk |-> dk, failed |-> TRUE, raised |-> TRUE]
    ELSE IF dk.fault = "metadata"
    THEN [disk |-> [dk EXCEPT !.index_file = <<st.index>>], failed |-> TRUE, raised |-> TRUE]
    ELSE [disk |-> [dk EXCEPT !.index_file = <<st.index>>,
                              !.metadata_file = <<[documents |-> json_documents(st.documents),
                                                   chunks |-> json_chunks(st.chunks)]>>],
          failed |-> FALSE, raised |-> FALSE]
\* _save_index (lines 292-312): the index file is written first, then the
\* metadata file; an error of either write is logged and swallowed.  The
\* result holds the files afterwards, whether a write failed, and whether the
\* error reaches the caller.
save_index(st, dk) ==
    IF dk.fault = "index"
    THEN [disk |-> dk, failed |-> TRUE, raised |-> FALSE]
    ELSE IF dk.fault = "metadata"
    THEN [disk |-> [dk EXCEPT !.index_file = <<st.index>>], failed |-> TRUE, raised |-> FALSE]
    ELSE [disk |-> [dk EXCEPT !.index_file = <<st.index>>,
                              !.metadata_file = <<[documents |-> json_documents(st.documents),
                                                   chunks |-> json_chunks(st.chunks)]>>],
          failed |-> FALSE, raised |-> FALSE]

\* _load_index (lines 314-335): the index file is read first, then the
\* metadata file, each when it exists; an error of either read is swallowed
\* and ends the load, leaving what had been read before.
load_index(st, dk) ==
    IF dk.index_file # NoFile /\ dk.fault = "index"
    THEN [st |-> st, failed |-> TRUE]
    ELSE LET st1 == IF dk.index_file # NoFile THEN [st EXCEPT !.index = dk.index_file[1]]
                    ELSE st
         IN IF dk.metadata_file = NoFile THEN [st |-> st1, failed |-> FALSE]
            ELSE IF dk.fault = "metadata" THEN [st |-> st1, failed |-> TRUE]
            ELSE [st |-> [st1 EXCEPT !.documents = dk.metadata_file[1].documents,
                                     !.chunks = dk.metadata_file[1].chunks],
                  failed |-> FALSE]

\* initialize (lines 37-58): nothing when the store is initialized; an
\* ImportError when faiss or numpy is missing; otherwise a fresh index, then
\* the load of the snapshot.  raise tells whether it raises; the store is
\* then as it was.
initialize(init, st, dk) ==
    IF init THEN [st |-> st, failed |-> FALSE, raise |-> FALSE]
    ELSE IF ~faiss THEN [st |-> st, failed |-> FALSE, raise |-> TRUE]
    ELSE LET ld == load_index([st EXCEPT !.index = <<>>], dk)
         IN [st |-> ld.st, failed |-> ld.failed, raise |-> FALSE]

\* What a call that begins with initialize leaves of the store before it goes
\* on: _initialized is set when initialize returns.
init_effect(ini) ==
    /\ initialized' = IF ini.raise THEN initialized ELSE TRUE
    /\ documents' = ini.st.documents
    /\ chunks' = ini.st.chunks
    /\ index' = ini.st.index

\* A new process: the store as __init__ leaves it (lines 30-35), no snapshot file.
Init ==
    /\ faiss \in BOOLEAN
    /\ client \in BOOLEAN
    /\ initialized = FALSE
    /\ documents = <<>>
    /\ chunks = <<>>
    /\ index = <<>>
    /\ next_id = 1
    /\ tasks = [t \in Tasks |-> IdleTask]
    /\ returned = NoReturn
    /\ disk = [index_file |-> NoFile, metadata_file |-> NoFile, fault |-> "none"]
\* Any installation: faiss and numpy importable or not, the embedding
\* provider configured or not.
\* The installation with faiss, numpy and a configured embedding provider.
InitConfigured == Init /\ faiss /\ client

\* ------------------------------------------------------------ add_documents
\* The for loop over the documents, run from the head of tk.docs until the
\* next embedding request or the end of the list (lines 72-97, 115-119).
RECURSIVE add_loop(_, _)
add_loop(st, tk) ==
    IF tk.docs = <<>> THEN [st |-> st, tk |-> [tk EXCEPT !.pc = "add_return"]]
    ELSE
      LET doc == Head(tk.docs)
          doc_id == st.next_id
          st1 == [st EXCEPT !.next_id = doc_id + 1,
                            !.documents = dict_set(@, [id |-> doc_id,
                                                       title |-> doc_get(doc, "title", "Untitled"),
                                                       metadata |-> doc_metadata(doc, doc_id,
                                                                        <<"document", doc_id>>),
                                                       user_id |-> tk.user_id])]
          cks == chunk_text(doc.content, doc.chunk_size, doc.overlap_size)
          tk1 == [tk EXCEPT !.docs = Tail(@),
                            !.document_ids = Append(@, doc_id),
                            !.doc_id = doc_id,
                            !.doc = doc,
                            !.cur = cks,
                            !.i = 0,
                            !.all_embeddings = <<>>]
      IN IF cks # <<>>
         THEN [st |-> st1, tk |-> [tk1 EXCEPT !.pc = "add_await"]]
         ELSE add_loop(st1, tk1)

\* The for loop over zip(chunks, embeddings) from pair i on (lines 100-113):
\* record the chunk, then append its vector; a failing index.add ends the loop
\* with the chunk recorded and no vector added.
RECURSIVE add_chunks(_, _, _, _)
add_chunks(st, tk, embeddings, i) ==
    IF i > Min(Len(tk.cur), Len(embeddings)) THEN st
    ELSE
      LET st1 == [st EXCEPT !.chunks = dict_set(@, [id |-> <<tk.doc_id, i - 1>>,
                                                    document_id |-> tk.doc_id,
                                                    chunk_index |-> i - 1,
                                                    content |-> tk.cur[i],
                                                    metadata |-> doc_metadata(tk.doc, tk.doc_id,
                                                                     <<"chunk", tk.doc_id, i - 1>>)])]
      IN IF index_add_raises(embeddings[i]) THEN st1
         ELSE add_chunks([st1 EXCEPT !.index = index_add(@, embeddings[i])],
                         tk, embeddings, i + 1)

\* An index.add raising inside the for loop over the chunks: the except branch
\* logs it and the loop continues with the next document (lines 117-119).
\* mismatched holds the ids of the documents whose index.add raised.
add_on_index_error(tk, embeddings) ==
    IF \E i \in 1..Min(Len(tk.cur), Len(embeddings)) : index_add_raises(embeddings[i])
    THEN [tk EXCEPT !.mismatched = @ \cup {tk.doc_id}]
    ELSE tk

\* What the embedding request of the suspended add_documents call produces
\* (line 97).
AddOutcomes(t) == ProviderOutcomes(tasks[t].cur)

\* add_documents from the vectors of the chunks of the current document to the
\* next embedding request or the end of the list (lines 100-119).
add_answered(st, tk, embeddings) ==
    add_loop(add_chunks(st, tk, embeddings, 1), add_on_index_error(tk, embeddings))

\* The chunks of all documents of one add_documents call, in order.
RECURSIVE chunks_of_call(_)
chunks_of_call(docs) ==
    IF docs = <<>> THEN <<>>
    ELSE chunk_text(Head(docs).content, Head(docs).chunk_size, Head(docs).overlap_size)
             \o chunks_of_call(Tail(docs))
\* The placeholder vectors one add_documents call is given without a client,
\* in the order of its requests: one vector per chunk.  With a client the
\* step that makes the call gets no answer.
AddMocks(docs) == IF client THEN {<<>>} ELSE MockEmbeddings(chunks_of_call(docs))

\* Without a client no embedding request suspends: the loop over the documents
\* runs to its end, every request answered with the next placeholder vectors
\* of mock (used of them are consumed).
RECURSIVE add_at_once(_, _, _)
add_at_once(r, mock, used) ==
    IF r.tk.pc # "add_await" THEN r
    ELSE add_at_once(add_answered(r.st, r.tk,
                        [i \in 1..Len(r.tk.cur) |-> mock[used + i]]),
                     mock, used + Len(r.tk.cur))

\* An embedding error inside add_documents: the except branch logs it and the
\* loop continues with the next document (lines 117-119).
add_on_embedding_error(st, tk) ==
    add_loop(st, [tk EXCEPT !.raised = @ \cup {tk.doc_id}])

\* The end of add_documents (lines 121-123), reached in the run that handled
\* the last document: the task is idle again and the call's result is recorded.
\* raised holds the ids of the documents whose embedding request raised.
\* The save of the snapshot (line 122) comes before the return.
\* snapshot_failed tells whether a snapshot read or write failed during the call.
add_finish(t, r) ==
    /\ initialized' = TRUE
    /\ UNCHANGED <<faiss, client>>
    /\ documents' = r.st.documents
    /\ chunks' = r.st.chunks
    /\ index' = r.st.index
    /\ next_id' = r.st.next_id
    /\ IF r.tk.pc = "add_return"
       THEN LET sv == save_index(r.st, disk)
            IN /\ tasks' = [tasks EXCEPT ![t] = IdleTask]
               /\ disk' = sv.disk
               /\ returned' = [op |-> "add", raised |-> r.tk.raised,
                               mismatched |-> r.tk.mismatched,
                               snapshot_failed |-> r.tk.snapshot_failed \/ sv.failed,
                               outcome |-> IF sv.raised THEN "raise" ELSE "return",
                               ret |-> IF sv.raised THEN <<>> ELSE r.tk.document_ids]
       ELSE /\ tasks' = [tasks EXCEPT ![t] = r.tk]
            /\ disk' = disk
            /\ returned' = NoReturn

\* add_documents up to its first embedding request that suspends (or its
\* return or raise).  The ImportError of initialize (lines 67-68, outside the
\* try blocks) ends the call with nothing recorded.
add_documents(t, docs, user_id, mock) ==
    /\ can_call(t)
    /\ next_id + Len(docs) - 1 <= MaxDocs
    /\ LET ini == initialize(initialized, store, disk)
           r == add_loop(ini.st, [pc |-> "add_call", op |-> "add", docs |-> docs,
                                  user_id |-> user_id, document_ids |-> <<>>,
                                  doc_id |-> 0, doc |-> NoneVal, cur |-> <<>>,
                                  i |-> 0, all_embeddings |-> <<>>, raised |-> {},
                                  mismatched |-> {},
                                  snapshot_failed |-> ini.failed])
       IN IF ini.raise
          THEN /\ returned' = [op |-> "add", raised |-> {}, mismatched |-> {},
                               snapshot_failed |-> FALSE, outcome |-> "raise",
                               ret |-> <<>>]
               /\ UNCHANGED <<faiss, client, initialized, documents, chunks, index,
                              next_id, tasks, disk>>
          ELSE add_finish(t, IF client THEN r ELSE add_at_once(r, mock, 0))

\* add_documents from the answer of an embedding request to the next request
\* (or the return).
add_resume(t, out) ==
    /\ tasks[t].pc = "add_await"
    /\ add_finish(t, IF out.raise
                     THEN add_on_embedding_error(store, tasks[t])
                     ELSE add_answered(store, tasks[t], out.vecs))

AddResume ==
    \E t \in Tasks : tasks[t].pc = "add_await" /\ \E out \in AddOutcomes(t) : add_resume(t, out)

\* ---------------------------------------------------------- delete_document
\* The membership test without effect: every id is taken as recorded.
document_known_always(docs, document_id) == TRUE
\* document_id in self.documents (line 216).
document_known(docs, document_id) == has_key(docs, document_id)

RECURSIVE chunks_of_others_first_only(_, _)
\* The removal stopping after the first chunk of document_id.
chunks_of_others_first_only(cks, document_id) ==
    IF cks = <<>> THEN <<>>
    ELSE IF Head(cks).document_id = document_id THEN Tail(cks)
         ELSE <<Head(cks)>> \o chunks_of_others_first_only(Tail(cks), document_id)
\* The document deleted and its chunks left in place.
chunks_of_others_all_kept(cks, document_id) == cks
RECURSIVE chunks_of_others(_, _)
\* self.chunks once the chunks of document_id are deleted (lines 220-226).
chunks_of_others(cks, document_id) ==
    IF cks = <<>> THEN <<>>
    ELSE IF Head(cks).document_id = document_id
         THEN chunks_of_others(Tail(cks), document_id)
         ELSE <<Head(cks)>> \o chunks_of_others(Tail(cks), document_id)

RECURSIVE chunk_ids_of(_, _)
\* chunks_to_remove: the ids of the chunks of document_id (lines 220-223).
chunk_ids_of(cks, document_id) ==
    IF cks = <<>> THEN <<>>
    ELSE IF Head(cks).document_id = document_id
         THEN <<Head(cks).id>> \o chunk_ids_of(Tail(cks), document_id)
         ELSE chunk_ids_of(Tail(cks), document_id)

\* [chunk["content"] for chunk in self.chunks.values()]
contents_of(cks) == [i \in 1..Len(cks) |-> cks[i].content]

\* The value delete_document returns when the rebuild raises (lines 237-239).
delete_on_rebuild_error == FALSE

\* The documents, chunks and index a call finds when it is made.
store_before == [documents |-> documents, chunks |-> chunks, index |-> index]

\* The result of a delete_document call; known tells whether the id was
\* recorded, before is the store the call was made on.
delete_return(t, document_id, known, ret, before) ==
    [op |-> "delete", document_id |-> document_id, known |-> known, before |-> before,
     snapshot_failed |-> FALSE, outcome |-> "return", ret |-> ret]

\* _rebuild_index from the answer of its embedding request (lines 284-290), and
\* the return of delete_document (lines 234-239), on the store st that the
\* removal left.  The new empty index is assigned before the vectors are added
\* to it.
rebuild_effect(t, st, document_id, before, out) ==
    IF out.raise
    THEN /\ index' = st.index
         /\ disk' = disk
         /\ returned' = delete_return(t, document_id, TRUE, delete_on_rebuild_error, before)
    ELSE IF \E i \in 1..Len(out.vecs) : index_add_raises(out.vecs[i])
    THEN /\ index' = <<>>
         /\ disk' = disk
         /\ returned' = delete_return(t, document_id, TRUE, delete_on_rebuild_error, before)
    ELSE LET sv == save_index([st EXCEPT !.index = out.vecs], disk)
         IN /\ index' = out.vecs
            /\ disk' = sv.disk
            /\ returned' =
                  [delete_return(t, document_id, TRUE,
                                 IF sv.raised THEN delete_on_rebuild_error ELSE TRUE,
                                 before)
                     EXCEPT !.snapshot_failed = sv.failed]

\* delete_document up to the embedding request of _rebuild_index when that
\* request suspends, and to its return otherwise; out is what an embedding
\* request that does not suspend gives.
delete_document(t, document_id, out) ==
    /\ can_call(t)
    /\ IF ~document_known(documents, document_id)
       THEN /\ returned' = delete_return(t, document_id, FALSE, FALSE, store_before)
            /\ UNCHANGED <<documents, chunks, index, tasks, disk>>
       ELSE LET cks == chunks_of_others(chunks, document_id)
                docs == dict_del(documents, document_id)
            IN /\ chunks' = cks
               /\ documents' = docs
               /\ IF cks = <<>>
                  THEN \* _rebuild_index: no chunk left, a fresh empty index
                       /\ index' = <<>>
                       /\ returned' = delete_return(t, document_id, TRUE, TRUE, store_before)
                       /\ tasks' = tasks
                       /\ disk' = disk
                  ELSE IF client
                  THEN /\ index' = index
                       /\ returned' = NoReturn
                       /\ disk' = disk
                       /\ tasks' = [tasks EXCEPT ![t] =
                              [pc |-> "rebuild_await", op |-> "delete",
                               document_id |-> document_id, before |-> store_before,
                               chunks_to_remove |-> chunk_ids_of(chunks, document_id),
                               contents |-> contents_of(cks),
                               i |-> 0, all_embeddings |-> <<>>]]
                  ELSE /\ rebuild_effect(t, [store EXCEPT !.documents = docs, !.chunks = cks],
                                         document_id, store_before, out)
                       /\ tasks' = tasks
    /\ UNCHANGED <<faiss, client, initialized, next_id>>

\* What the request generate_embeddings has made for _rebuild_index produces
\* (line 284; openai_service.py 181-187): the vectors of the sub-batch of
\* contents that begins at i.
RebuildOutcomes(t) ==
    ProviderOutcomes(py_slice(tasks[t].contents, tasks[t].i, tasks[t].i + batch_size))
\* What the embedding request of _rebuild_index gives a delete_document(d)
\* call in the step that makes the call: nothing yet with a client.
DeleteOutcomes(document_id) ==
    IF client THEN {[raise |-> FALSE, vecs |-> <<>>]}
    ELSE ProviderOutcomes(contents_of(chunks_of_others(chunks, document_id)))

\* delete_document from the answer of a request generate_embeddings made for
\* _rebuild_index: when contents has more than batch_size texts, to the sleep
\* that follows every answer (openai_service.py 189-195); otherwise, and when
\* the request raised, to the return of delete_document.
rebuild_resume(t, out) ==
    /\ tasks[t].pc = "rebuild_await"
    /\ LET tk == tasks[t]
           all == tk.all_embeddings \o out.vecs
       IN IF ~out.raise /\ sleeps_between_batches(Len(tk.contents))
          THEN /\ tasks' = [tasks EXCEPT ![t] = [tk EXCEPT !.pc = "rebuild_sleep",
                                                           !.all_embeddings = all]]
               /\ returned' = NoReturn
               /\ UNCHANGED <<index, disk>>
          ELSE /\ rebuild_effect(t, store, tk.document_id, tk.before,
                                 [raise |-> out.raise, vecs |-> all])
               /\ tasks' = [tasks EXCEPT ![t] = IdleTask]
    /\ UNCHANGED <<faiss, client, initialized, documents, chunks, next_id>>

DeleteDocument ==
    \E t \in Tasks, d \in 1..MaxDocs : \E out \in DeleteOutcomes(d) : delete_document(t, d, out)
RebuildResume ==
    \E t \in Tasks : tasks[t].pc = "rebuild_await"
        /\ \E out \in RebuildOutcomes(t) : rebuild_resume(t, out)
\* delete_document from the end of a sleep of generate_embeddings to its next
\* request, or, after the last sub-batch, through the replacement of the
\* index and the save to its return (openai_service.py 181-197; lines 284-290,
\* 234-235).
RebuildWake ==
    \E t \in Tasks :
        /\ tasks[t].pc = "rebuild_sleep"
        /\ LET tk == tasks[t]
           IN IF more_batches(tk.i, Len(tk.contents))
              THEN /\ tasks' = [tasks EXCEPT ![t] = [tk EXCEPT !.pc = "rebuild_await",
                                                               !.i = @ + batch_size]]
                   /\ returned' = NoReturn
                   /\ UNCHANGED <<index, disk>>
              ELSE /\ rebuild_effect(t, store, tk.document_id, tk.before,
                                     [raise |-> FALSE, vecs |-> tk.all_embeddings])
                   /\ tasks' = [tasks EXCEPT ![t] = IdleTask]
        /\ UNCHANGED <<faiss, client, initialized, documents, chunks, next_id>>

\* ------------------------------------------- search_similar, get_rag_context
\* search_similar up to its embedding request (lines 134-139); get_rag_context
\* makes the same call.  The arguments stay in the coroutine's frame and are
\* not read before the embedding answer arrives, so the model draws them when
\* the call resumes.
\* The request suspends when a client is configured.
search_call(t, op) ==
    /\ can_call(t)
    /\ client
    /\ LET ini == initialize(initialized, store, disk)
       IN /\ ~ini.raise
          /\ init_effect(ini)
          /\ tasks' = [tasks EXCEPT ![t] = [pc |-> "search_await", op |-> op,
                                            snapshot_failed |-> ini.failed]]
    /\ returned' = NoReturn
    /\ UNCHANGED <<faiss, client, next_id, disk>>

\* What the embedding request of search_similar produces
\* (generate_embeddings([query]), line 139).
SearchOutcomes(query) == ProviderOutcomes(<<query>>)
\* query_vector: the vector of the query in the answer.
query_vector(out) == IF out.raise THEN <<>> ELSE out.vecs[1]

\* The list search_similar returns when its embedding request raises (lines 181-183).
search_on_embedding_error == <<>>

\* What a search_similar call on the store st returns, given the answer of its
\* embedding request.
search_results(st, out, k, similarity_threshold, user_id) ==
    IF out.raise THEN search_on_embedding_error
    ELSE search_similar_body(st.documents, st.chunks, st.index, query_vector(out), k,
                             similarity_threshold, user_id)

\* The result of a search_similar call that returns.
search_return(st, failed, k, similarity_threshold, user_id, out) ==
    [op |-> "search", k |-> k,
     similarity_threshold |-> similarity_threshold, user_id |-> user_id,
     raised |-> out.raise, vec |-> query_vector(out),
     snapshot_failed |-> failed, outcome |-> "return",
     ret |-> search_results(st, out, k, similarity_threshold, user_id)]

\* The result of a get_rag_context call that returns.
rag_return(st, failed, query, max_chunks, similarity_threshold, user_id, out) ==
    [op |-> "rag", query |-> query, max_chunks |-> max_chunks,
     similarity_threshold |-> similarity_threshold, user_id |-> user_id,
     raised |-> out.raise, vec |-> query_vector(out),
     snapshot_failed |-> failed, outcome |-> "return",
     ret |-> rag_envelope(query,
                 search_results(st, out, rag_k(max_chunks), similarity_threshold, user_id),
                 max_chunks, similarity_threshold)]

\* search_similar(query, k, similarity_threshold, user_id) from the answer of
\* its embedding request to its return.
search_similar(t, query, k, similarity_threshold, user_id, out) ==
    /\ tasks[t].pc = "search_await"
    /\ tasks[t].op = "search"
    /\ returned' = search_return(store, tasks[t].snapshot_failed, k, similarity_threshold,
                                 user_id, out)
    /\ tasks' = [tasks EXCEPT ![t] = IdleTask]
    /\ UNCHANGED <<faiss, client, initialized, documents, chunks, index, next_id, disk>>

\* get_rag_context(query, max_chunks, similarity_threshold, user_id) from the
\* answer of the embedding request of its search_similar call to its return.
get_rag_context(t, query, max_chunks, similarity_threshold, user_id, out) ==
    /\ tasks[t].pc = "search_await"
    /\ tasks[t].op = "rag"
    /\ returned' = rag_return(store, tasks[t].snapshot_failed, query, max_chunks,
                              similarity_threshold, user_id, out)
    /\ tasks' = [tasks EXCEPT ![t] = IdleTask]
    /\ UNCHANGED <<faiss, client, initialized, documents, chunks, index, next_id, disk>>

\* A call that begins with initialize and does not suspend: initialize raises,
\* or no client is configured and the embedding request is answered at once.
\* The step is the whole call, made by a caller that is not inside a call; it
\* leaves every caller where it is.
at_once(ini) ==
    /\ some_caller_idle
    /\ ini.raise \/ ~client
    /\ init_effect(ini)
    /\ UNCHANGED <<faiss, client, next_id, tasks, disk>>

\* health_check (lines 337-349), the whole call: it initializes the store when
\* needed and returns whether there is an index; the ImportError of
\* initialize is caught and makes it return False.
health_check ==
    LET ini == initialize(initialized, store, disk)
    IN /\ some_caller_idle
       /\ init_effect(ini)
       /\ returned' = [op |-> "health_check", snapshot_failed |-> ini.failed,
                       outcome |-> "return", ret |-> ~ini.raise]
       /\ UNCHANGED <<faiss, client, next_id, tasks, disk>>

\* initialize (lines 37-58) called on its own, the whole call.
initialize_call ==
    LET ini == initialize(initialized, store, disk)
    IN /\ some_caller_idle
       /\ init_effect(ini)
       /\ returned' = [op |-> "initialize", snapshot_failed |-> ini.failed,
                       outcome |-> IF ini.raise THEN "raise" ELSE "return",
                       ret |-> NoneVal]
       /\ UNCHANGED <<faiss, client, next_id, tasks, disk>>

SearchSimilar ==
    \E t \in Tasks, q \in Queries, k \in 1..MaxK, th \in Thresholds, u \in FilterIds :
        \E out \in SearchOutcomes(q) : search_similar(t, q, k, th, u, out)
GetRagContext ==
    \E t \in Tasks, q \in Queries, m \in 1..MaxChunksArg, th \in Thresholds, u \in FilterIds :
        \E out \in SearchOutcomes(q) : get_rag_context(t, q, m, th, u, out)

\* ------------------------------------------------------------ chat handlers
\* generate_ai_response and generate_streaming_response (api/chat.py) build the
\* message list of the completion request in the same way: the stored messages
\* of the conversation, then get_rag_context(query=user_content, user_id=user_id)
\* with its defaults, then the context message.  A message content is a
\* sequence of tokens: the literals of the format strings, a title, or one
\* character of a chunk.

\* The defaults of get_rag_context.  Scores are integers here, and an integer
\* is below 0.7 exactly when it is below 1.
default_max_chunks == 5
default_similarity_threshold == 1

\* The stored messages of a conversation, as the query returns them (newest first).
Histories ==
    { <<>>,
      <<[role |-> "user", content |-> <<"q">>]>>,
      <<[role |-> "user", content |-> <<"q">>], [role |-> "system", content |-> <<"s">>]>> }

\* reversed(messages)
reversed(messages) == [i \in 1..Len(messages) |-> messages[Len(messages) + 1 - i]]

\* sep.join(parts)
RECURSIVE join(_, _)
join(sep, parts) ==
    IF parts = <<>> THEN <<>>
    ELSE IF Len(parts) = 1 THEN parts[1]
    ELSE parts[1] \o sep \o join(sep, Tail(parts))

\* f"Document: {result['metadata']['title']}\nContent: {result['content']}"
context_entry(result) == <<"Document: ", result.title, "\n", "Content: ">> \o result.content

\* The entries in an order other than the order of the results.
context_entries_reversed(results) ==
    [i \in 1..Len(results) |-> context_entry(results[Len(results) + 1 - i])]
\* The list comprehension over rag_context["results"].
context_entries(results) == [i \in 1..Len(results) |-> context_entry(results[i])]

\* system_message
system_message(results) ==
    [role |-> "system",
     content |-> <<"You are WonderAI, a helpful assistant. Use the following context to answer questions:",
                   "\n\n">> \o join(<<"\n\n">>, context_entries(results))]

\* openai_messages when the completion is requested.
openai_messages(messages, rag_context) ==
    IF rag_context.results # <<>>
    THEN <<system_message(rag_context.results)>> \o reversed(messages)
    ELSE reversed(messages)

\* The completion request a chat handler makes, given the answer of the
\* embedding request of its get_rag_context call on the store st.
chat_return(st, failed, messages, user_content, user_id, out) ==
    LET rag_context ==
            rag_envelope(user_content,
                         search_results(st, out, rag_k(default_max_chunks),
                                        default_similarity_threshold, user_id),
                         default_max_chunks, default_similarity_threshold)
    IN [op |-> "chat", messages |-> messages, user_id |-> user_id,
        raised |-> out.raise, rag_context |-> rag_context,
        snapshot_failed |-> failed,
        outcome |-> "return",
        openai_messages |-> openai_messages(messages, rag_context)]

\* A chat handler from the answer of the embedding request of its
\* get_rag_context call to its completion request.
chat_resume(t, messages, user_content, user_id, out) ==
    /\ tasks[t].pc = "search_await"
    /\ tasks[t].op = "chat"
    /\ returned' = chat_return(store, tasks[t].snapshot_failed, messages, user_content,
                               user_id, out)
    /\ tasks' = [tasks EXCEPT ![t] = IdleTask]
    /\ UNCHANGED <<faiss, client, initialized, documents, chunks, index, next_id, disk>>

ChatResume ==
    \E t \in Tasks, messages \in Histories, q \in Queries :
        \E out \in SearchOutcomes(q) : chat_resume(t, messages, q, "alice", out)

\* ------------------------------------------------------------ specifications
\* No call is suspended: every call issued so far has returned.
no_call_in_flight == \A t \in Tasks : tasks[t].pc = "idle"

\* Spec: calls are issued one at a time, each after the previous one returned.
SeqAddDocuments ==
    no_call_in_flight
        /\ \E t \in Tasks, docs \in DocLists, u \in OwnerIds :
               \E mock \in AddMocks(docs) : add_documents(t, docs, u, mock)
SeqDeleteDocument == no_call_in_flight /\ DeleteDocument
SeqSearchCall ==
    no_call_in_flight /\ \E t \in Tasks, op \in {"search", "rag"} : search_call(t, op)
SeqHealthCheck == no_call_in_flight /\ health_check
SeqInitializeCall == no_call_in_flight /\ initialize_call

Next ==
    \/ SeqAddDocuments
    \/ AddResume
    \/ SeqDeleteDocument
    \/ RebuildResume
    \/ SeqSearchCall
    \/ SearchSimilar
    \/ GetRagContext
    \/ SeqHealthCheck
    \/ SeqInitializeCall

Spec == InitConfigured /\ [][Next]_vars

\* SpecUnconfigured: calls are issued one at a time on an installation where
\* no call suspends: no embedding client is configured, so that every
\* embedding request is answered at once with placeholder vectors, or faiss
\* and numpy are missing, so that initialize raises.  Every step is a whole
\* call.  The placeholder vector of a query does not depend on the query, so
\* the searches are made with one query text; every call draws new vectors,
\* so two searches of one store may order its chunks differently.  No
\* placeholder score is below the thresholds of Thresholds, so the searches
\* are made with the threshold 0; the documents are added by "alice", and at
\* most MaxStored chunks are stored at once.
InitUnconfigured == Init /\ (~faiss \/ ~client)
\* add_documents(documents, user_id), the whole call, made while at most
\* MaxStored chunks are stored after it; mock holds the placeholder vectors of
\* its embedding requests.  No call overlaps another, so that one caller
\* stands for all.
AddDocumentsAtOnce ==
    \E docs \in DocLists, u \in {"alice"} :
        /\ Len(chunks) + Len(chunks_of_call(docs)) <= MaxStored
        /\ \E mock \in AddMocks(docs) : add_documents(1, docs, u, mock)
\* search_similar(query, k, similarity_threshold, user_id), the whole call.
\* The ImportError of initialize (lines 134-135, outside the try block) ends
\* the call.
SearchSimilarAtOnce ==
    \E query \in {<<"a">>}, k \in {1, MaxK}, similarity_threshold \in {0},
       user_id \in {NoneVal, "alice"} :
      \E out \in SearchOutcomes(query) :
            LET ini == initialize(initialized, store, disk)
            IN /\ at_once(ini)
               /\ returned' = IF ini.raise
                              THEN [op |-> "search", k |-> k,
                                    similarity_threshold |-> similarity_threshold,
                                    user_id |-> user_id, raised |-> FALSE, vec |-> <<>>,
                                    snapshot_failed |-> FALSE, outcome |-> "raise",
                                    ret |-> <<>>]
                              ELSE search_return(ini.st, ini.failed, k, similarity_threshold,
                                                 user_id, out)
\* get_rag_context(query, max_chunks, similarity_threshold, user_id), the whole
\* call.  The ImportError its search_similar call raises ends the call.
GetRagContextAtOnce ==
    \E query \in {<<"a">>}, max_chunks \in {1},
       similarity_threshold \in {0}, user_id \in {"alice"} :
      \E out \in SearchOutcomes(query) :
            LET ini == initialize(initialized, store, disk)
            IN /\ at_once(ini)
               /\ returned' = IF ini.raise
                              THEN [op |-> "rag", query |-> query, max_chunks |-> max_chunks,
                                    similarity_threshold |-> similarity_threshold,
                                    user_id |-> user_id, raised |-> FALSE, vec |-> <<>>,
                                    snapshot_failed |-> FALSE, outcome |-> "raise",
                                    ret |-> <<>>]
                              ELSE rag_return(ini.st, ini.failed, query, max_chunks,
                                              similarity_threshold, user_id, out)
\* A chat handler whose get_rag_context call does not suspend, up to its
\* completion request or the end of its try block: on the ImportError of
\* get_rag_context the except branch of the handler takes over and no
\* completion is requested.
ChatAtOnce ==
    \E user_content \in {<<"a">>}, messages \in {<<>>}, user_id \in {"alice"} :
      \E out \in SearchOutcomes(user_content) :
            LET ini == initialize(initialized, store, disk)
            IN /\ at_once(ini)
               /\ returned' = IF ini.raise
                              THEN [op |-> "chat", messages |-> messages, user_id |-> user_id,
                                    raised |-> FALSE, rag_context |-> NoneVal,
                                    snapshot_failed |-> FALSE, outcome |-> "raise",
                                    openai_messages |-> <<>>]
                              ELSE chat_return(ini.st, ini.failed, messages, user_content,
                                               user_id, out)
NextUnconfigured ==
    \/ AddDocumentsAtOnce
    \/ SeqDeleteDocument
    \/ SearchSimilarAtOnce
    \/ GetRagContextAtOnce
    \/ ChatAtOnce
    \/ SeqHealthCheck
    \/ SeqInitializeCall
SpecUnconfigured == InitUnconfigured /\ [][NextUnconfigured]_vars

\* SpecConcurrent: callers issue calls independently, so calls interleave at
\* their embedding requests.  get_rag_context suspends only where its
\* search_similar call suspends, so the searches issued here are search_similar
\* calls, with one query, the largest k and no threshold or owner filter, and
\* the documents are added without owner.
ConcAddDocuments ==
    \E t \in Tasks, docs \in DocLists :
        \E mock \in AddMocks(docs) : add_documents(t, docs, NoneVal, mock)
ConcSearchCall == \E t \in Tasks : search_call(t, "search")
ConcSearchSimilar ==
    \E t \in Tasks, q \in {<<"a">>} :
        \E out \in SearchOutcomes(q) : search_similar(t, q, MaxK, 0, NoneVal, out)

NextConcurrent ==
    \/ ConcAddDocuments
    \/ AddResume
    \/ DeleteDocument
    \/ RebuildResume
    \/ RebuildWake
    \/ ConcSearchCall
    \/ ConcSearchSimilar

SpecConcurrent == InitConfigured /\ [][NextConcurrent]_vars

\* SpecAdds, SpecAddDelete: calls overlap as in SpecConcurrent, and no step
\* fails: every embedding request is answered with one vector of the
\* configured dimension per text, and the snapshot is written.  SpecAdds has
\* add_documents calls only; SpecAddDelete has delete_document calls as well
\* and begins with a store that holds one document already, as it is after
\* add_documents([{"content": "b"}]) has returned (the document has the id 0).
embedding_ok(texts) == [raise |-> FALSE, vecs |-> embedding_answer(texts, 0)]
AddResumeOk ==
    \E t \in Tasks : tasks[t].pc = "add_await" /\ add_resume(t, embedding_ok(tasks[t].cur))
RebuildResumeOk ==
    \E t \in Tasks :
        tasks[t].pc = "rebuild_await" /\ rebuild_resume(t, embedding_ok(py_slice(tasks[t].contents, tasks[t].i,
                                               tasks[t].i + batch_size)))

NextAdds == ConcAddDocuments \/ AddResumeOk
SpecAdds == InitConfigured /\ [][NextAdds]_vars

NextAddDelete ==
    \/ ConcAddDocuments
    \/ AddResumeOk
    \/ DeleteDocument
    \/ RebuildResumeOk
    \/ RebuildWake
InitStored ==
    /\ faiss = TRUE
    /\ client = TRUE
    /\ initialized = TRUE
    /\ documents = <<[id |-> 0, title |-> "Untitled",
                      metadata |-> [obj |-> <<"document", 0>>, val |-> 0],
                      user_id |-> NoneVal]>>
    /\ chunks = <<[id |-> <<0, 0>>, document_id |-> 0, chunk_index |-> 0,
                   content |-> <<"b">>,
                   metadata |-> [obj |-> <<"chunk", 0, 0>>, val |-> 0]]>>
    /\ index = <<embed(<<"b">>)>>
    /\ next_id = 1
    /\ tasks = [t \in Tasks |-> IdleTask]
    /\ returned = NoReturn
    /\ disk = [index_file |-> <<index>>,
               metadata_file |-> <<[documents |-> json_documents(documents),
                                    chunks |-> json_chunks(chunks)]>>,
               fault |-> "none"]
SpecAddDelete == InitStored /\ [][NextAddDelete]_vars

\* SpecChat: documents are added and deleted and chat requests handled, one
\* call at a time.
SeqChatCall == no_call_in_flight /\ \E t \in Tasks : search_call(t, "chat")
NextChat ==
    \/ SeqAddDocuments
    \/ AddResume
    \/ SeqDeleteDocument
    \/ RebuildResume
    \/ SeqChatCall
    \/ ChatResume
SpecChat == InitConfigured /\ [][NextChat]_vars

\* ------------------------------------------------- metadata changed in place
\* SpecMetadata: documents are added, and between the calls a holder of the
\* store changes the metadata dict of a chunk or of a document in place
\* (vector_service.chunks[chunk_id]["metadata"][key] = value).  The change is
\* made to the dict object, so it shows in every record that refers to it.
\* The contents written are 1 and 2; a dict made by add_documents itself
\* (doc.get("metadata", {})) starts with the content 0.
MetadataValues == {1, 2}

metadata_set(records, obj, val) ==
    [i \in 1..Len(records) |->
        IF records[i].metadata.obj = obj
        THEN [records[i] EXCEPT !.metadata.val = val]
        ELSE records[i]]

\* The dict of the chunk at position pos of the chunk map gets the content val.
set_chunk_metadata(pos, val) ==
    /\ no_call_in_flight
    /\ pos \in 1..Len(chunks)
    /\ chunks[pos].metadata.val # val
    /\ documents' = metadata_set(documents, chunks[pos].metadata.obj, val)
    /\ chunks' = metadata_set(chunks, chunks[pos].metadata.obj, val)
    /\ returned' = [op |-> "set_chunk_metadata", pos |-> pos, val |-> val,
                    before |-> store_before, outcome |-> "return"]
    /\ UNCHANGED <<faiss, client, initialized, index, next_id, tasks, disk>>

\* The dict of the document at position pos of the document map gets the content val.
set_document_metadata(pos, val) ==
    /\ no_call_in_flight
    /\ pos \in 1..Len(documents)
    /\ documents[pos].metadata.val # val
    /\ documents' = metadata_set(documents, documents[pos].metadata.obj, val)
    /\ chunks' = metadata_set(chunks, documents[pos].metadata.obj, val)
    /\ returned' = [op |-> "set_document_metadata", pos |-> pos, val |-> val,
                    before |-> store_before, outcome |-> "return"]
    /\ UNCHANGED <<faiss, client, initialized, index, next_id, tasks, disk>>

SetChunkMetadata ==
    \E pos \in 1..(MaxDocs * 2), val \in MetadataValues : set_chunk_metadata(pos, val)
SetDocumentMetadata ==
    \E pos \in 1..MaxDocs, val \in MetadataValues : set_document_metadata(pos, val)

NextMetadata ==
    \/ SeqAddDocuments
    \/ AddResume
    \/ SetChunkMetadata
    \/ SetDocumentMetadata
SpecMetadata == InitConfigured /\ [][NextMetadata]_vars

\* ---------------------------------------------- restarts and disk failures
\* SpecSnapshot: calls are issued one at a time; the process may be restarted,
\* which constructs a new store (lines 30-35, 353) and leaves the files, and
\* the file system may start or stop failing.  Searches are search_similar
\* calls with the largest k and no threshold or owner filter.
\* A new process constructs the store (lines 30-35, 353); the files stay.
Restart ==
    /\ initialized
    /\ initialized' = FALSE
    /\ documents' = <<>>
    /\ chunks' = <<>>
    /\ index' = <<>>
    /\ tasks' = [t \in Tasks |-> IdleTask]
    /\ returned' = NoReturn
    /\ UNCHANGED <<faiss, client, next_id, disk>>
\* The file system starts or stops failing on one of the two files.
DiskFault ==
    \E f \in {"none", "index", "metadata"} :
            /\ f # disk.fault
            /\ disk' = [disk EXCEPT !.fault = f]
            /\ returned' = NoReturn
            /\ UNCHANGED <<faiss, client, initialized, documents, chunks, index, next_id, tasks>>
SnapSearchCall == no_call_in_flight /\ ConcSearchCall

NextSnapshot ==
    \/ SeqAddDocuments
    \/ AddResume
    \/ SeqDeleteDocument
    \/ RebuildResume
    \/ SnapSearchCall
    \/ ConcSearchSimilar
    \/ SeqHealthCheck
    \/ SeqInitializeCall
    \/ Restart
    \/ DiskFault

SpecSnapshot == InitConfigured /\ [][NextSnapshot]_vars

\* ------------------------------------------------------- _chunk_text alone
\* SpecChunker: _chunk_text called on its own and followed one loop iteration
\* at a time.  The method is synchronous, so one call runs at a time.
ChunkTexts == UNION { [1..n -> {"a", " "}] : n \in 0..MaxTextLen }

chunk_return(text, chunk_size, overlap, ret) ==
    [op |-> "chunk_text", text |-> text, chunk_size |-> chunk_size,
     overlap |-> overlap, outcome |-> "return", ret |-> ret]

\* _chunk_text up to the first test of the while condition (lines 244-250).
\* end is unbound until the first iteration assigns it; it is 0 until then.
chunk_call(t, text, chunk_size, overlap) ==
    /\ no_call_in_flight
    /\ IF Len(text) <= chunk_size
       THEN /\ returned' = chunk_return(text, chunk_size, overlap, chunk_short(text))
            /\ tasks' = tasks
       ELSE /\ returned' = NoReturn
            /\ tasks' = [tasks EXCEPT ![t] =
                   [pc |-> "chunk_loop", op |-> "chunk_text", text |-> text,
                    chunk_size |-> chunk_size, overlap |-> overlap,
                    start |-> 0, end |-> 0, chunks |-> <<>>]]
    /\ UNCHANGED <<faiss, client, initialized, documents, chunks, index, next_id, disk>>

ChunkCall ==
    \E t \in Tasks, text \in ChunkTexts, cs \in 1..MaxChunkSize, ov \in 0..MaxOverlap :
        chunk_call(t, text, cs, ov)
\* One iteration of the while loop, then the break test and the loop condition
\* (lines 250-270).  The model follows a loop while it has collected at most
\* MaxLoopChunks chunks and start has not fallen below -MaxTextLen.
ChunkStep ==
    \E t \in Tasks :
            /\ tasks[t].pc = "chunk_loop"
            /\ Len(tasks[t].chunks) <= MaxLoopChunks
            /\ tasks[t].start >= 0 - MaxTextLen
            /\ LET tk == tasks[t]
                   it == chunk_iter(tk.text, tk.chunk_size, tk.overlap, tk.start, tk.chunks)
               IN IF it.start >= Len(tk.text)
                  THEN /\ returned' = chunk_return(tk.text, tk.chunk_size, tk.overlap, it.chunks)
                       /\ tasks' = [tasks EXCEPT ![t] = IdleTask]
                  ELSE /\ returned' = NoReturn
                       /\ tasks' = [tasks EXCEPT ![t] = [tk EXCEPT !.start = it.start,
                                                                    !.end = it.end,
                                                                    !.chunks = it.chunks]]
            /\ UNCHANGED <<faiss, client, initialized, documents, chunks, index, next_id, disk>>

NextChunker == ChunkCall \/ ChunkStep
SpecChunker == InitConfigured /\ [][NextChunker]_vars

\* ------------------------------------------------ generate_embeddings alone
\* SpecEmbeddings: OpenAIService.generate_embeddings called on its own and
\* followed from one suspension to the next: the sub-batch requests and the
\* sleeps between them.
EmbedTextLists == UNION { [1..n -> Queries] : n \in 0..MaxEmbedTexts }

embed_return(tk, ret) ==
    [op |-> "embed", texts |-> tk.texts, client |-> tk.client,
     provider_raised |-> FALSE, outcome |-> "return", ret |-> ret]

\* The except branch of generate_embeddings (lines 200-202): log and re-raise.
on_provider_error(tk) ==
    [op |-> "embed", texts |-> tk.texts, client |-> tk.client,
     provider_raised |-> TRUE, outcome |-> "raise", ret |-> <<>>]

\* generate_embeddings up to its first sub-batch request (lines 168-185).
generate_embeddings(t, texts, mock) ==
    /\ no_call_in_flight
    /\ LET tk == [pc |-> "embed_await", op |-> "embed", texts |-> texts,
                  client |-> client, i |-> 0, all_embeddings |-> <<>>]
       IN IF ~client
          THEN /\ returned' = embed_return(tk, mock)
               /\ tasks' = tasks
          ELSE IF texts = <<>>
          THEN /\ returned' = embed_return(tk, <<>>)
               /\ tasks' = tasks
          ELSE /\ returned' = NoReturn
               /\ tasks' = [tasks EXCEPT ![t] = tk]
    /\ UNCHANGED <<faiss, client, initialized, documents, chunks, index, next_id, disk>>

\* Every request made for the first batch_size texts.
current_batch_from_start(tk) == py_slice(tk.texts, 0, batch_size)
\* batch = texts[i:i + batch_size]
current_batch(tk) == py_slice(tk.texts, tk.i, tk.i + batch_size)

\* generate_embeddings from the answer to a sub-batch request to the sleep
\* that follows it, or, for an input of one sub-batch, to the return (lines
\* 185-202).
embeddings_resume(t, out) ==
    /\ tasks[t].pc = "embed_await"
    /\ LET tk == tasks[t]
           all == tk.all_embeddings \o out.vecs
       IN IF out.raise
          THEN /\ returned' = on_provider_error(tk)
               /\ tasks' = [tasks EXCEPT ![t] = IdleTask]
          ELSE IF sleeps_between_batches(Len(tk.texts))
          THEN /\ returned' = NoReturn
               /\ tasks' = [tasks EXCEPT ![t] = [tk EXCEPT !.pc = "embed_sleep",
                                                            !.all_embeddings = all]]
          ELSE /\ returned' = embed_return(tk, all)
               /\ tasks' = [tasks EXCEPT ![t] = IdleTask]
    /\ UNCHANGED <<faiss, client, initialized, documents, chunks, index, next_id, disk>>

\* mock holds the placeholder vectors of a call made without a client, a call
\* with at most MaxMockTexts texts.
GenerateEmbeddings ==
    \E t \in Tasks, texts \in EmbedTextLists :
        /\ client \/ Len(texts) <= MaxMockTexts
        /\ \E mock \in (IF client THEN {<<>>} ELSE MockEmbeddings(texts)) :
               generate_embeddings(t, texts, mock)
EmbeddingsResume ==
    \E t \in Tasks : tasks[t].pc = "embed_await"
        /\ \E out \in EmbeddingOutcomes(current_batch(tasks[t])) :
               embeddings_resume(t, out)
\* generate_embeddings from the end of the sleep to the next sub-batch request
\* or the return.
EmbeddingsWake ==
    \E t \in Tasks :
            /\ tasks[t].pc = "embed_sleep"
            /\ LET tk == tasks[t]
               IN IF more_batches(tk.i, Len(tk.texts))
                  THEN /\ returned' = NoReturn
                       /\ tasks' = [tasks EXCEPT ![t] = [tk EXCEPT !.pc = "embed_await",
                                                                    !.i = @ + batch_size]]
                  ELSE /\ returned' = embed_return(tk, tk.all_embeddings)
                       /\ tasks' = [tasks EXCEPT ![t] = IdleTask]
            /\ UNCHANGED <<faiss, client, initialized, documents, chunks, index, next_id, disk>>

NextEmbeddings == GenerateEmbeddings \/ EmbeddingsResume \/ EmbeddingsWake
SpecEmbeddings == Init /\ [][NextEmbeddings]_vars

\* --------------------------------------------- ingest with sub-batches
\* SpecIngest: add_documents and delete_document called one call at a time
\* and followed through the sub-batch requests of generate_embeddings
\* (openai_service.py 177-202) for the chunks of each document added and for
\* the chunks left by a delete; i and all_embeddings are the loop variable and
\* the list of generate_embeddings.
\*   ""      -> one chunk holding the empty text
\*   "a b a" -> three chunks, "a", "b" and "a": two sub-batches
BatchDocInputs ==
    { [content |-> <<>>, chunk_size |-> 2, overlap_size |-> 0],
      [title |-> "T", content |-> <<"a", " ", "b", " ", "a">>, chunk_size |-> 2,
       overlap_size |-> 0] }
BatchDocLists == UNION { [1..n -> BatchDocInputs] : n \in 0..MaxBatch }

\* A sub-batch request raising: generate_embeddings logs and re-raises
\* (openai_service.py 200-202), which ends its loop, and the except branch of
\* add_documents takes over (lines 117-119).
add_on_batch_error(st, tk) == add_on_embedding_error(st, tk)

\* add_documents from the answer to a sub-batch request to the sleep that
\* follows it in generate_embeddings, or, for a document of one sub-batch, to
\* the next request (of a later document) or the return.
add_batch_resume(t, out) ==
    /\ tasks[t].pc = "add_await"
    /\ LET tk == tasks[t]
           all == tk.all_embeddings \o out.vecs
       IN add_finish(t, IF out.raise
                        THEN add_on_batch_error(store, tk)
                        ELSE IF sleeps_between_batches(Len(tk.cur))
                        THEN [st |-> store,
                              tk |-> [tk EXCEPT !.pc = "add_sleep",
                                                !.all_embeddings = all]]
                        ELSE add_answered(store, tk, all))

BatchAddDocuments ==
    no_call_in_flight
        /\ \E t \in Tasks, docs \in BatchDocLists, u \in OwnerIds :
               add_documents(t, docs, u, <<>>)
\* The answer is that of the sub-batch the suspended call is waiting for.
AddBatchResume ==
    \E t \in Tasks : tasks[t].pc = "add_await"
        /\ \E out \in EmbeddingOutcomes(py_slice(tasks[t].cur, tasks[t].i,
                                                  tasks[t].i + batch_size)) :
               add_batch_resume(t, out)

\* add_documents from the end of the sleep to the next sub-batch request, or,
\* after the last sub-batch, through the recording of the chunks to the next
\* request (of a later document) or the return.
AddBatchWake ==
    \E t \in Tasks :
            /\ tasks[t].pc = "add_sleep"
            /\ LET tk == tasks[t]
               IN add_finish(t, IF more_batches(tk.i, Len(tk.cur))
                                THEN [st |-> store,
                                      tk |-> [tk EXCEPT !.pc = "add_await", !.i = @ + batch_size]]
                                ELSE add_answered(store, [tk EXCEPT !.pc = "add_await"],
                                                  tk.all_embeddings))

NextIngest ==
    \/ BatchAddDocuments
    \/ AddBatchResume
    \/ AddBatchWake
    \/ SeqDeleteDocument
    \/ RebuildResume
    \/ RebuildWake
SpecIngest == InitConfigured /\ [][NextIngest]_vars

\* ---------------------------------------------------------------------------
\* Owner-filtered retrieval over a store shared with another owner.
\* The service has ingested one document without owner before,
\* add_documents([{"content": "b b", "chunk_size": 2, "overlap_size": 0}]):
\* it has the id 0 and the chunks "b" and "b".  Further documents are added,
\* every embedding request of add_documents being answered, and
\* get_rag_context is called.
OwnedContent == <<"b", " ", "b">>
InitOwned ==
    /\ faiss = TRUE
    /\ client = TRUE
    /\ initialized = TRUE
    /\ documents = <<[id |-> 0, title |-> "Untitled",
                      metadata |-> [obj |-> <<"document", 0>>, val |-> 0],
                      user_id |-> NoneVal]>>
    /\ chunks = [i \in 1..Len(chunk_text(OwnedContent, 2, 0)) |->
                    [id |-> <<0, i - 1>>, document_id |-> 0, chunk_index |-> i - 1,
                     content |-> chunk_text(OwnedContent, 2, 0)[i],
                     metadata |-> [obj |-> <<"chunk", 0, i - 1>>, val |-> 0]]]
    /\ index = [i \in 1..Len(chunks) |-> embed(chunks[i].content)]
    /\ next_id = 1
    /\ tasks = [t \in Tasks |-> IdleTask]
    /\ returned = NoReturn
    /\ disk = [index_file |-> <<index>>,
               metadata_file |-> <<[documents |-> json_documents(documents),
                                    chunks |-> json_chunks(chunks)]>>,
               fault |-> "none"]
SeqRagCall == no_call_in_flight /\ \E t \in Tasks : search_call(t, "rag")
NextOwners ==
    \/ SeqAddDocuments
    \/ AddResumeOk
    \/ SeqRagCall
    \/ GetRagContext
SpecOwners == InitOwned /\ [][NextOwners]_vars

\* ==================================================================== claims
\* The result list of the search the latest step completed.
is_search == returned.op \in {"search", "rag"}
returned_results ==
    IF returned.outcome = "raise" THEN <<>>
    ELSE IF returned.op = "rag" THEN returned.ret.results ELSE returned.ret
range(seq) == {seq[i] : i \in 1..Len(seq)}
owner_of(document_id) == dict_get(documents, document_id).user_id
position_of(chunk_id) == CHOOSE i \in 1..Len(chunks) : chunks[i].id = chunk_id

\* C1: whenever every add_documents and delete_document call issued so far has
\* returned, the index holds as many vectors as the chunk map has entries.
C1_IndexSizeEqualsChunkCount ==
    (initialized /\ no_call_in_flight) => Len(index) = Len(chunks)

\* C2: a search made with an owner filter u (a user_id the code treats as a
\* filter, i.e. neither None nor "") returns only chunks of documents whose
\* user_id is u.
C2_OwnerFilter ==
    (is_search /\ truthy(returned.user_id)) =>
        \A r \in range(returned_results) :
            /\ has_key(documents, r.document_id)
            /\ owner_of(r.document_id) = returned.user_id
\* A filtered search returned a chunk while a chunk of another owner was a hit.
C2_Witness ==
    /\ returned.op = "search"
    /\ returned.user_id = "alice"
    /\ returned.similarity_threshold = 0
    /\ returned.ret # <<>>
    /\ Len(index) = Len(chunks)
    /\ returned.k >= Len(index)
    /\ \E i \in 1..Len(chunks) :
          has_key(documents, chunks[i].document_id)
              /\ owner_of(chunks[i].document_id) # "alice"

\* C3: no result of a search has a similarity_score below the call's
\* similarity_threshold.
C3_ThresholdFilter ==
    is_search =>
        \A r \in range(returned_results) :
            r.similarity_score >= returned.similarity_threshold
\* A search returned some hits and dropped others for their score.
C3_Witness ==
    /\ returned.op = "search"
    /\ returned.similarity_threshold = 2
    /\ returned.user_id = NoneVal
    /\ Len(index) = Len(chunks)
    /\ returned.k >= Len(index)
    /\ returned.ret # <<>>
    /\ Len(returned.ret) < Len(index)

\* C4: once delete_document(d) has returned for a recorded d, the index holds
\* as many vectors as chunks remain, and a search returns no chunk of a
\* deleted document (a generated id that is no longer recorded).
C4_DeleteThenSearch ==
    /\ (returned.op = "delete" /\ returned.known) => Len(index) = Len(chunks)
    /\ is_search => \A r \in range(returned_results) : has_key(documents, r.document_id)

\* C5 as claimed: add_documents does not return normally with the id of a
\* document whose embedding request raised.
C5_EmbeddingErrorPropagates ==
    returned.op = "add" =>
        \/ returned.outcome = "raise"
        \/ \A d \in returned.raised : d \notin range(returned.ret)

\* C6 as claimed: a search whose embedding request raised ends with the error.
C6_SearchErrorPropagates ==
    (is_search /\ returned.raised) => returned.outcome = "raise"

\* C7: at most one mutating call (add_documents, delete_document) is suspended
\* between two of its state changes at any time.
C7_MutationsSerialized ==
    Cardinality({t \in Tasks : mid_mutation(t)}) <= 1

\* C8: a search never resolves index positions while a delete_document call
\* that has removed chunks is suspended in its rebuild, i.e. against the old
\* index together with the shrunk chunk map.
C8_SearchSeesConsistentPair ==
    (is_search /\ ~returned.raised) =>
        \A t \in Tasks :
            tasks[t].pc \in {"rebuild_await", "rebuild_sleep"}
                => tasks[t].chunks_to_remove = <<>>

\* C9: get_rag_context returns the first max_chunks results of search_similar
\* called with k = 2 * max_chunks and the same threshold and owner;
\* total_chunks is the length of results and is at most max_chunks; the
\* envelope echoes query, max_chunks and similarity_threshold.
C9_Expected ==
    IF returned.raised THEN <<>>
    ELSE search_similar_body(documents, chunks, index, returned.vec,
                             2 * returned.max_chunks,
                             returned.similarity_threshold, returned.user_id)
C9_RagContext ==
    (returned.op = "rag" /\ returned.outcome = "return") =>
        /\ returned.ret.results =
              SubSeq(C9_Expected, 1, Min(returned.max_chunks, Len(C9_Expected)))
        /\ returned.ret.total_chunks = Len(returned.ret.results)
        /\ returned.ret.total_chunks <= returned.max_chunks
        /\ returned.ret.query = returned.query
        /\ returned.ret.max_chunks = returned.max_chunks
        /\ returned.ret.similarity_threshold = returned.similarity_threshold
\* get_rag_context cut the list its search returned down to max_chunks.
C9_Witness ==
    /\ returned.op = "rag"
    /\ returned.outcome = "return"
    /\ Len(C9_Expected) > returned.max_chunks
    /\ Len(returned.ret.results) = returned.max_chunks

\* C10: search_similar returns at most k results, by descending score, and of
\* two results with the same score the chunk added earlier comes first.
C10_SearchOrdered ==
    returned.op = "search" =>
        /\ Len(returned.ret) <= returned.k
        /\ \A i, j \in 1..Len(returned.ret) :
              i < j =>
                \/ returned.ret[i].similarity_score > returned.ret[j].similarity_score
                \/ /\ returned.ret[i].similarity_score = returned.ret[j].similarity_score
                   /\ position_of(returned.ret[i].chunk_id)
                          < position_of(returned.ret[j].chunk_id)
\* A search returned k results, cut from more hits, with a tie and two scores.
C10_Witness ==
    /\ returned.op = "search"
    /\ Len(returned.ret) = returned.k
    /\ Len(index) > returned.k
    /\ \E i, j \in 1..Len(returned.ret) :
          i < j /\ returned.ret[i].similarity_score = returned.ret[j].similarity_score
    /\ \E i, j \in 1..Len(returned.ret) :
          i < j /\ returned.ret[i].similarity_score > returned.ret[j].similarity_score

\* C11: a delete_document call for an id that is not recorded returns False
\* without raising and leaves documents, chunks and index as they were.
C11_DeleteUnknown ==
    (returned.op = "delete"
        /\ ~\E i \in 1..Len(returned.before.documents) :
                returned.before.documents[i].id = returned.document_id)
    => /\ returned.outcome = "return"
       /\ returned.ret = FALSE
       /\ documents = returned.before.documents
       /\ chunks = returned.before.chunks
       /\ index = returned.before.index
\* delete_document returned for an unknown id while the store held documents,
\* chunks and vectors.
C11_Witness ==
    /\ returned.op = "delete"
    /\ ~returned.known
    /\ returned.ret = FALSE
    /\ documents # <<>>
    /\ chunks # <<>>
    /\ index # <<>>

\* The store without document d and without the chunks of d.
C12_Without(before, d) ==
    [documents |-> SelectSeq(before.documents, LAMBDA e : e.id # d),
     chunks |-> SelectSeq(before.chunks, LAMBDA c : c.document_id # d)]
\* C12: a delete_document(d) call for a recorded d removes exactly d from the
\* documents and exactly the chunks of d from the chunks; every other record
\* stays, unchanged and in the same order.  Calls are issued one at a time, so
\* this is the store while the call is suspended in its rebuild and when it
\* returns.
C12_DeleteFrame ==
    /\ \A t \in Tasks :
          tasks[t].pc \in {"rebuild_await", "rebuild_sleep"} =>
              /\ documents = C12_Without(tasks[t].before, tasks[t].document_id).documents
              /\ Len(documents) = Len(tasks[t].before.documents) - 1
              /\ chunks = C12_Without(tasks[t].before, tasks[t].document_id).chunks
    /\ (returned.op = "delete"
           /\ \E i \in 1..Len(returned.before.documents) :
                  returned.before.documents[i].id = returned.document_id) =>
              /\ documents = C12_Without(returned.before, returned.document_id).documents
              /\ Len(documents) = Len(returned.before.documents) - 1
              /\ chunks = C12_Without(returned.before, returned.document_id).chunks
\* A delete_document call removed a document with its chunks and left chunks
\* of another document behind.
C12_Witness ==
    \E t \in Tasks :
        /\ tasks[t].pc = "rebuild_await"
        /\ Len(tasks[t].chunks_to_remove) >= 2
        /\ chunks # <<>>
        /\ documents # <<>>

\* C13: a document with zero-length content gets no chunk and no vector, and
\* no search returns a result for it.  The chunker yields an empty chunk only
\* for zero-length content (a window that is blank after strip() is dropped),
\* so the chunks of such documents are exactly the chunks with empty content.
C13_EmptyContentNoChunk ==
    /\ \A i \in 1..Len(chunks) : chunks[i].content # <<>>
    /\ is_search => \A r \in range(returned_results) : r.content # <<>>

\* C14: the sliding-window loop of _chunk_text terminates.  What an iteration
\* does depends on text, chunk_size, overlap and start only, so a loop that
\* terminates has no iteration that stays in the loop and leaves start where
\* it was: such an iteration is repeated forever.
C14_ChunkLoopTerminates ==
    [][\A t \in Tasks :
          (tasks[t].pc = "chunk_loop" /\ tasks'[t].pc = "chunk_loop")
              => tasks'[t].start # tasks[t].start]_vars

\* C20: for a text no longer than chunk_size, _chunk_text returns the list
\* holding the text itself, unstripped, also when it is empty or blank.
C20_ShortTextUnchanged ==
    (returned.op = "chunk_text" /\ Len(returned.text) <= returned.chunk_size)
        => returned.ret = <<returned.text>>
\* _chunk_text returned for a short text that begins or ends with a space.
C20_Witness ==
    /\ returned.op = "chunk_text"
    /\ Len(returned.text) <= returned.chunk_size
    /\ returned.text # <<>>
    /\ strip(returned.text) # returned.text
    /\ returned.ret = <<returned.text>>

\* C15: when the provider is not configured (no client) or its request raises,
\* generate_embeddings does not raise; it returns one vector of the configured
\* dimension per input text.
C15_EmbeddingsNeverRaise ==
    (returned.op = "embed" /\ (~returned.client \/ returned.provider_raised)) =>
        /\ returned.outcome = "return"
        /\ Len(returned.ret) = Len(returned.texts)
        /\ \A i \in 1..Len(returned.ret) : Len(returned.ret[i]) = dimension

\* A step in which a call that records nothing itself initializes the store
\* (reads the snapshot): a search_similar call, which then suspends at its
\* embedding request or returns, a health_check or an initialize call.
C16_InitializingSearch ==
    /\ ~initialized
    /\ initialized'
    /\ returned'.op # "add"
    /\ \A t \in Tasks : tasks'[t].pc # "add_await"
\* What a successful read of the snapshot files puts in memory.
C16_Loaded ==
    [index |-> IF disk.index_file = NoFile THEN <<>> ELSE disk.index_file[1],
     documents |-> IF disk.metadata_file = NoFile THEN <<>>
                   ELSE disk.metadata_file[1].documents,
     chunks |-> IF disk.metadata_file = NoFile THEN <<>>
                ELSE disk.metadata_file[1].chunks]
\* C16 as claimed: a call during which a snapshot write or read failed
\* returns normally, and the store in memory is what it is when the snapshot
\* step succeeds: after a read, the content of the files.
C16_SnapshotFailureTransparent ==
    [][/\ (returned'.op \in {"add", "delete", "search"} /\ returned'.snapshot_failed)
            => returned'.outcome = "return"
       /\ C16_InitializingSearch =>
            /\ index' = C16_Loaded.index
            /\ documents' = C16_Loaded.documents
            /\ chunks' = C16_Loaded.chunks]_vars
\* C16 as amended: a call during which a snapshot write or read failed
\* returns normally; after a failed write the ids add_documents returns are
\* recorded in memory; a failed read ends the load where it failed: without
\* the index file's content the store starts empty, without the metadata
\* file's content it starts with the loaded index and no document or chunk.
C16_SnapshotFailureSwallowed ==
    [][/\ (returned'.op \in {"add", "delete", "search"} /\ returned'.snapshot_failed)
            => returned'.outcome = "return"
       /\ (returned'.op = "add" /\ returned'.snapshot_failed)
            => \A d \in range(returned'.ret) :
                  \E i \in 1..Len(documents') : documents'[i].id = d
       /\ C16_InitializingSearch =>
            LET index_unread == disk.index_file # NoFile /\ disk.fault = "index"
                metadata_unread == disk.metadata_file # NoFile /\ disk.fault = "metadata"
            IN /\ index' = IF index_unread THEN <<>> ELSE C16_Loaded.index
               /\ documents' = IF index_unread \/ metadata_unread THEN <<>>
                                ELSE C16_Loaded.documents
               /\ chunks' = IF index_unread \/ metadata_unread THEN <<>>
                             ELSE C16_Loaded.chunks]_vars
\* After a restart a search initialized the store while the metadata file,
\* which holds documents and chunks, could not be read.
C16_Witness ==
    \E t \in Tasks :
        /\ tasks[t].pc = "search_await"
        /\ tasks[t].snapshot_failed
        /\ disk.fault = "metadata"
        /\ disk.metadata_file # NoFile
        /\ disk.metadata_file[1].chunks # <<>>
        /\ index # <<>>
        /\ chunks = <<>>
\* add_documents returned after the write of its snapshot had failed.
C16_WitnessWrite ==
    /\ returned.op = "add"
    /\ returned.snapshot_failed
    /\ returned.ret # <<>>
    /\ chunks # <<>>

\* The titles a context message names, in the order it names them.
C17_Titles(content) ==
    LET at == SelectSeq([i \in 1..Len(content) |-> i],
                        LAMBDA i : content[i] = "Document: ")
    IN [j \in 1..Len(at) |-> content[at[j] + 1]]
\* The number of blank-line separators in a context message.
C17_Separators(content) ==
    Len(SelectSeq(content, LAMBDA x : x = "\n\n"))
\* C17: a chat handler puts a context message into the message list exactly
\* when get_rag_context returned at least one result; the message is a single
\* system message in front of the stored messages, and it names the results in
\* their order (scores descending), with a blank line before each entry.
C17_ContextMessage ==
    (returned.op = "chat" /\ returned.outcome = "return") =>
        LET results == returned.rag_context.results
            stored == reversed(returned.messages)
            sent == returned.openai_messages
        IN /\ (Len(sent) = Len(stored) + 1) <=> (results # <<>>)
           /\ results = <<>> => sent = stored
           /\ results # <<>> =>
                /\ sent[1].role = "system"
                /\ Tail(sent) = stored
                /\ C17_Titles(sent[1].content) = [i \in 1..Len(results) |-> results[i].title]
                /\ C17_Separators(sent[1].content) = Len(results)
                /\ \A i \in 1..Len(results) :
                       \E a \in 1..Len(sent[1].content) :
                           SubSeq(sent[1].content, a, a + 3 + Len(results[i].content))
                               = context_entry(results[i])
                /\ \A i, j \in 1..Len(results) :
                       i < j => results[i].similarity_score >= results[j].similarity_score
\* A chat request with stored messages got results of two documents with
\* different scores and sent the context message.
C17_Witness ==
    /\ returned.op = "chat"
    /\ returned.outcome = "return"
    /\ returned.messages # <<>>
    /\ Len(returned.rag_context.results) >= 3
    /\ \E i, j \in 1..Len(returned.rag_context.results) :
           /\ returned.rag_context.results[i].title # returned.rag_context.results[j].title
           /\ returned.rag_context.results[i].similarity_score
                  # returned.rag_context.results[j].similarity_score
    /\ Len(returned.openai_messages) = Len(returned.messages) + 1
\* A chat request found nothing and sent the stored messages alone.
C17_WitnessNoResult ==
    /\ returned.op = "chat"
    /\ returned.outcome = "return"
    /\ returned.messages # <<>>
    /\ chunks # <<>>
    /\ returned.rag_context.results = <<>>

\* C18: index.add fails for a vector whose length is not the configured
\* dimension, and an add_documents call in which that happens does not return
\* normally: the error reaches the caller.
C18_DimensionMismatchFatal ==
    (returned.op = "add" /\ returned.mismatched # {}) => returned.outcome = "raise"

\* C19: every recorded document carries a status, which is "pending" from the
\* moment its metadata is recorded, "indexed" once its chunks are embedded, and
\* "error" when a step of its ingestion raised.
C19_DocumentStatus ==
    \A i \in 1..Len(documents) :
        /\ "status" \in DOMAIN documents[i]
        /\ documents[i].status \in {"pending", "indexed", "error"}

\* The vector at position i is the answer of the provider for texts[i].
C21_Belongs(vecs, texts, i) == vecs[i] \in {embed(texts[i]), BadVec}
\* C21: generate_embeddings returns one vector per text, the i-th for the i-th
\* text, also when the texts are split into sub-batches: the sub-batches are
\* requested in the order of the input (the vectors collected so far are those
\* of the texts before the current sub-batch) and their answers concatenated.
C21_OneVectorPerText ==
    /\ \A t \in Tasks :
          tasks[t].pc = "embed_await" =>
              /\ tasks[t].i % batch_size = 0
              /\ tasks[t].i < Len(tasks[t].texts)
              /\ Len(tasks[t].all_embeddings) = tasks[t].i
              /\ \A j \in 1..tasks[t].i :
                     C21_Belongs(tasks[t].all_embeddings, tasks[t].texts, j)
    /\ (returned.op = "embed" /\ returned.outcome = "return") =>
          /\ Len(returned.ret) = Len(returned.texts)
          /\ returned.client =>
                 \A j \in 1..Len(returned.texts) :
                     C21_Belongs(returned.ret, returned.texts, j)
\* generate_embeddings returned the vectors of more texts than one sub-batch
\* holds, and the vectors of the first and the last text differ.
C21_Witness ==
    /\ returned.op = "embed"
    /\ returned.client
    /\ returned.outcome = "return"
    /\ Len(returned.texts) > batch_size
    /\ returned.ret[1] # returned.ret[Len(returned.texts)]
    /\ \A j \in 1..Len(returned.texts) : returned.ret[j] = embed(returned.texts[j])

\* The 0-based positions of the window text[start:raw] that hold a space.
C22_Spaces(text, start, raw) ==
    {i \in py_bound(start, Len(text))..(py_bound(raw, Len(text)) - 1) : text[i + 1] = " "}
\* C22 as claimed: a window whose raw cut point start + chunk_size lies inside
\* the text is cut at its last space when it contains a space, and at the raw
\* cut point only when it contains none.
C22_CutAtLastSpace ==
    [][\A t \in Tasks :
          (tasks[t].pc = "chunk_loop" /\ tasks'[t].pc = "chunk_loop") =>
              LET text == tasks[t].text
                  raw == tasks[t].start + tasks[t].chunk_size
                  spaces == C22_Spaces(text, tasks[t].start, raw)
              IN raw < Len(text) =>
                   IF spaces # {}
                   THEN /\ tasks'[t].end \in spaces
                        /\ \A i \in spaces : i <= tasks'[t].end
                   ELSE tasks'[t].end = raw]_vars
\* C22: a window that begins inside the text (start >= 0) and whose raw cut
\* point start + chunk_size lies inside the text is cut at its last space when
\* it contains a space after its first character, so that the character at
\* the cut is a space; every other such window is cut at the raw cut point.
C22_CutAtLastSpaceAfterStart ==
    [][\A t \in Tasks :
          (tasks[t].pc = "chunk_loop" /\ tasks'[t].pc = "chunk_loop"
              /\ tasks[t].start >= 0) =>
              LET text == tasks[t].text
                  raw == tasks[t].start + tasks[t].chunk_size
                  spaces == {i \in C22_Spaces(text, tasks[t].start, raw) : i > tasks[t].start}
              IN IF raw < Len(text) /\ spaces # {}
                 THEN /\ tasks'[t].end \in spaces
                      /\ \A i \in spaces : i <= tasks'[t].end
                      /\ text[tasks'[t].end + 1] = " "
                 ELSE tasks'[t].end = raw]_vars
\* The first window of a text was cut before its raw cut point, at a space
\* after a word, and gave a chunk.
C22_Witness ==
    \E t \in Tasks :
        /\ tasks[t].pc = "chunk_loop"
        /\ tasks[t].overlap = 0
        /\ Len(tasks[t].chunks) = 1
        /\ tasks[t].start = tasks[t].end
        /\ tasks[t].end < tasks[t].chunk_size
        /\ tasks[t].text[tasks[t].end + 1] = " "
        /\ tasks[t].text[1] = "a"

\* The chunks recorded for document d, in the order of the chunk map.
C23_ChunksOf(d) == SelectSeq(chunks, LAMBDA c : c.document_id = d)
\* C23: the chunks the sliding window produces for a text longer than
\* chunk_size are non-empty and neither begin nor end with whitespace; the
\* chunks recorded for a document have the chunk_index 0, 1, ..., n-1 in their
\* order and the id made of the document id and the chunk_index, and no two
\* chunks of the store have the same id.
C23_ChunksStrippedAndNumbered ==
    /\ \A t \in Tasks :
          (tasks[t].pc = "add_await"
              /\ Len(tasks[t].doc.content) > tasks[t].doc.chunk_size) =>
                 \A j \in 1..Len(tasks[t].cur) :
                     /\ tasks[t].cur[j] # <<>>
                     /\ Head(tasks[t].cur[j]) # " "
                     /\ tasks[t].cur[j][Len(tasks[t].cur[j])] # " "
    /\ \A i \in 1..Len(documents) :
          LET own == C23_ChunksOf(documents[i].id)
          IN \A j \in 1..Len(own) :
                 /\ own[j].chunk_index = j - 1
                 /\ own[j].id = <<documents[i].id, j - 1>>
    /\ \A i, j \in 1..Len(chunks) : i # j => chunks[i].id # chunks[j].id
\* Two documents are recorded with their chunks, one of them with the two
\* chunks of a text whose middle window is blank.
C23_Witness ==
    /\ no_call_in_flight
    /\ \E i, j \in 1..Len(documents) :
          /\ i # j
          /\ Len(C23_ChunksOf(documents[i].id)) = 2
          /\ C23_ChunksOf(documents[i].id)[2].content = <<"b">>
          /\ Len(C23_ChunksOf(documents[j].id)) >= 1

\* The chunker half of C23 on _chunk_text alone: for a text longer than
\* chunk_size, every chunk collected or returned is non-empty and neither
\* begins nor ends with whitespace.
C23_ChunkerStripped ==
    LET clean(cs) == \A j \in 1..Len(cs) :
                         cs[j] # <<>> /\ Head(cs[j]) # " " /\ cs[j][Len(cs[j])] # " "
    IN /\ \A t \in Tasks : tasks[t].pc = "chunk_loop" => clean(tasks[t].chunks)
       /\ (returned.op = "chunk_text" /\ Len(returned.text) > returned.chunk_size)
              => clean(returned.ret)

\* C24: every chunk holds a copy of its document's metadata: a change of the
\* metadata of one chunk leaves the documents and every other chunk as they
\* were, and a change of the metadata of a document leaves the chunks as they
\* were.
C24_MetadataCopied ==
    /\ returned.op = "set_chunk_metadata" =>
          /\ documents = returned.before.documents
          /\ \A i \in 1..Len(chunks) :
                 i # returned.pos => chunks[i] = returned.before.chunks[i]
    /\ returned.op = "set_document_metadata" => chunks = returned.before.chunks

\* s is a prefix of s2.
C25_Prefix(s, s2) == Len(s) <= Len(s2) /\ SubSeq(s2, 1, Len(s)) = s
\* No step of an ingest takes a recorded document, chunk or vector away.
C25_NothingRolledBack ==
    (returned'.op = "add" \/ \E t \in Tasks : tasks'[t].op = "add") =>
        /\ C25_Prefix(documents, documents')
        /\ C25_Prefix(chunks, chunks')
        /\ C25_Prefix(index, index')
\* No sub-batch is requested for a document of which a sub-batch has failed.
C25_NoLaterSubBatch ==
    \A t \in Tasks : tasks[t].pc = "add_await" => tasks[t].doc_id \notin tasks[t].raised
\* C25 as claimed: when a sub-batch fails, no later sub-batch of the document
\* is requested, the ingest call ends with the error, and nothing recorded
\* before is taken back: the document record stays.
C25_SubBatchFailureSurfaced ==
    [][/\ C25_NothingRolledBack
       /\ C25_NoLaterSubBatch'
       /\ (returned'.op = "add" /\ returned'.raised # {}) =>
              /\ returned'.outcome = "raise"
              /\ \A d \in returned'.raised : has_key(documents', d)]_vars

\* C26: with calls made one after the other, every chunk of the chunk map
\* belongs to a document of the document map, in every state, and every result
\* of a search names a recorded document.
C26_ChunksHaveDocuments ==
    /\ \A i \in 1..Len(chunks) : has_key(documents, chunks[i].document_id)
    /\ is_search => \A r \in range(returned_results) : has_key(documents, r.document_id)
\* A delete_document call removed a document that had chunks and left another
\* document with its chunks.
C26_Witness ==
    /\ returned.op = "delete"
    /\ returned.ret = TRUE
    /\ \E i \in 1..Len(returned.before.chunks) :
           returned.before.chunks[i].document_id = returned.document_id
    /\ chunks # <<>>

\* C27: a delete_document call that returns False leaves the documents, the
\* chunks and the index as it found them, also when the rebuild fails.
C27_FalseLeavesStore ==
    (returned.op = "delete" /\ returned.ret = FALSE) =>
        /\ documents = returned.before.documents
        /\ chunks = returned.before.chunks
        /\ index = returned.before.index

\* C28: while add_documents calls overlap and no step fails, the index holds
\* one vector per chunk of the chunk map, and the vector at each position is
\* the embedding of the chunk at that position, in every state.
C28_VectorsFollowChunks ==
    /\ Len(index) = Len(chunks)
    /\ \A i \in 1..Len(chunks) : index[i] = embed(chunks[i].content)
\* Two add_documents calls overlapped: the chunks of the document recorded
\* second come first in the chunk map, the other call is still waiting, and
\* the index holds different vectors.
C28_Witness ==
    /\ \E t \in Tasks : tasks[t].pc = "add_await"
    /\ \E i \in 1..Len(chunks) : chunks[i].document_id > 1
    /\ ~\E i \in 1..Len(chunks) : chunks[i].document_id = 1
    /\ \E i, j \in 1..Len(index) : index[i] # index[j]

\* The positions of the chunks recorded since the store was as in before.
C29_RecordedSince(before) ==
    {i \in 1..Len(chunks) :
        ~\E j \in 1..Len(before.chunks) : before.chunks[j].id = chunks[i].id}
\* C29: when a delete_document call has returned True, no call is in progress
\* and an add_documents call recorded chunks while the delete was suspended in
\* its rebuild, every one of these chunks has its vector in the index, at the
\* position of the chunk in the chunk map, and the index holds one vector per
\* chunk.
C29_IngestDuringRebuildKept ==
    (returned.op = "delete" /\ returned.ret = TRUE /\ no_call_in_flight
        /\ C29_RecordedSince(returned.before) # {}) =>
        /\ Len(index) = Len(chunks)
        /\ \A i \in C29_RecordedSince(returned.before) :
               /\ i <= Len(index)
               /\ index[i] = embed(chunks[i].content)

\* The positions of the chunks that belong to documents of user_id and whose
\* vector scores at least similarity_threshold against the query vector vec.
C30_Qualifying(vec, similarity_threshold, user_id) ==
    {i \in 1..Len(chunks) :
        /\ has_key(documents, chunks[i].document_id)
        /\ owner_of(chunks[i].document_id) = user_id
        /\ inner_product(index[i], vec) >= similarity_threshold}
\* No chunk outside that set has the score of a chunk in it, so that the order
\* the index gives to equal scores plays no part.
C30_NoTieAcrossOwners(vec, similarity_threshold, user_id) ==
    \A i \in C30_Qualifying(vec, similarity_threshold, user_id),
       j \in (1..Len(chunks)) \ C30_Qualifying(vec, similarity_threshold, user_id) :
        inner_product(index[i], vec) # inner_product(index[j], vec)
\* C30: get_rag_context with an owner filter returns min(max_chunks, n) chunks,
\* n being the number of chunks of that owner's documents that score at least
\* the threshold, and no such chunk that is left out scores higher than a
\* returned one, however many chunks of other owners are stored.  Stated for
\* a store in which every chunk has its vector at its position, a query whose
\* embedding request was answered with a vector of the right length, and
\* scores that differ between the owner's qualifying chunks and all others.
C30_OwnerTopChunks ==
    (returned.op = "rag" /\ truthy(returned.user_id) /\ ~returned.raised
        /\ Len(returned.vec) = dimension
        /\ Len(index) = Len(chunks)
        /\ \A i \in 1..Len(chunks) : index[i] = embed(chunks[i].content)
        /\ C30_NoTieAcrossOwners(returned.vec, returned.similarity_threshold,
                                 returned.user_id)) =>
        LET q == C30_Qualifying(returned.vec, returned.similarity_threshold,
                                returned.user_id)
            results == returned.ret.results
            got == {position_of(results[j].chunk_id) : j \in 1..Len(results)}
        IN /\ Len(results) = Min(returned.max_chunks, Cardinality(q))
           /\ got \subseteq q
           /\ \A i \in q \ got, j \in got :
                  inner_product(index[i], returned.vec)
                      <= inner_product(index[j], returned.vec)

\* C30 (amended): get_rag_context with an owner filter returns at most
\* max_chunks chunks, all of that owner's documents and scoring at least the
\* threshold, highest score first; such a chunk is left out only when
\* max_chunks chunks scoring at least as high are returned, or when at least
\* 2 * max_chunks other chunks of the index, of any owner, score at least as
\* high as it (the owner filter is applied to the 2 * max_chunks best hits).
\* Stated for a store in which every chunk has its vector at its position and
\* a query whose embedding request was answered with a vector of the right
\* length.
C30_OwnerChunksOfShortlist ==
    (returned.op = "rag" /\ truthy(returned.user_id) /\ ~returned.raised
        /\ Len(returned.vec) = dimension
        /\ Len(index) = Len(chunks)
        /\ \A i \in 1..Len(chunks) : index[i] = embed(chunks[i].content)) =>
        LET q == C30_Qualifying(returned.vec, returned.similarity_threshold,
                                returned.user_id)
            results == returned.ret.results
            got == {position_of(results[j].chunk_id) : j \in 1..Len(results)}
            score(i) == inner_product(index[i], returned.vec)
        IN /\ Len(results) <= returned.max_chunks
           /\ Cardinality(got) = Len(results)
           /\ got \subseteq q
           /\ \A j \in 1..Len(results) :
                  results[j].similarity_score = score(position_of(results[j].chunk_id))
           /\ \A j \in 1..(Len(results) - 1) :
                  results[j].similarity_score >= results[j + 1].similarity_score
           /\ \A i \in q \ got :
                  \/ /\ Len(results) = returned.max_chunks
                     /\ \A j \in got : score(i) <= score(j)
                  \/ Cardinality({j \in (1..Len(chunks)) \ {i} : score(j) >= score(i)})
                         >= 2 * returned.max_chunks
\* A filtered get_rag_context call has returned a chunk of the owner although
\* a chunk of another owner scores higher.
C30_Witness ==
    /\ returned.op = "rag" /\ truthy(returned.user_id) /\ ~returned.raised
    /\ Len(returned.vec) = dimension
    /\ Len(index) = Len(chunks)
    /\ \A i \in 1..Len(chunks) : index[i] = embed(chunks[i].content)
    /\ Len(returned.ret.results) > 0
    /\ \E i \in 1..Len(chunks) :
           /\ owner_of(chunks[i].document_id) # returned.user_id
           /\ inner_product(index[i], returned.vec)
                  > returned.ret.results[1].similarity_score

====
